---- MODULE Spec2Model ----
(***************************************************************************)
(* A model of reno's git-history scanner (reno/scanner.py).                *)
(*                                                                         *)
(* A repository (commits with their note trees, annotated tags) is built   *)
(* by git operations; Scanner.get_notes_by_version then runs over it: the  *)
(* preparation, one step per iteration of the topological walk (with the   *)
(* aggregation of the commit's changes and the tracker calls it makes),    *)
(* and the three passes that build the result.                             *)
(***************************************************************************)
EXTENDS Integers, Sequences, FiniteSets, TLC

(***************************************************************************)
(* Bounds of the model.                                                    *)
(***************************************************************************)
MaxCommits == 3
MaxTags == 2
MaxCommitsV == 3
MaxTagsV == 3
MaxCommitsM == 5
MaxTagsM == 1
MaxCommitsW == 2
MaxWorktree == 2
MaxCommitsT == 2
MaxTagsT == 2
MaxScans == 2
MaxEntries == 3
MaxCommitsR == 4
MaxTagsR == 2
MaxCommitsS == 2
MaxTagsS == 1
MaxVersions == 3
MaxCallsA == 2
MaxCommitsL == 5
MaxTagsL == 1
MaxCommitsB == 3
MaxTagsB == 2
MaxSlugLen == 17
MaxCommitsG == 2
MaxTagsG == 2
MaxCommitsI == 2
MaxTagsI == 1
MaxCommitsD == 3
MaxTagsD == 2
MaxSections == 2
MaxItems == 2
MaxCalls == 3
MaxShaK == 2

(***************************************************************************)
(* Characters and file names.  A file name is the sequence of characters   *)
(* of the root of its base name; the directory prefix and the ".yaml"      *)
(* extension are the same for all note files.  Characters are numbered in  *)
(* the order Python compares them: '-' < digits < letters.                 *)
(***************************************************************************)
Dash == 0
Digit0 == 1
LetterA == 11
UidLen == 16

Min(a, b) == IF a < b THEN a ELSE b
Max(a, b) == IF a > b THEN a ELSE b

\* Python's s[-n:] and s[:n] on a sequence.
LastChars(s, n) == SubSeq(s, Max(1, Len(s) - n + 1), Len(s))
FirstChars(s, n) == SubSeq(s, 1, Min(n, Len(s)))

HasDash(s) == \E i \in 1..Len(s) : s[i] = Dash

\* _get_unique_id on the root of the base name (basename and splitext strip
\* the directory and the extension).
\* (GetUniqueIdLegacyOnly: the same without the test for a dash, which takes the
\* first 16 characters of every name.)
GetUniqueIdLegacyOnly(root) == FirstChars(root, UidLen)
get_unique_id(root) ==
    LET uniqueid == LastChars(root, UidLen)
    IN  IF HasDash(uniqueid) THEN FirstChars(root, UidLen) ELSE uniqueid

\* The UIDs and slugs the notes of the model are named with.
UidStr(k) == [i \in 1..UidLen |-> IF i = UidLen THEN Digit0 + k ELSE Digit0]
Uids == {UidStr(1), UidStr(2)}
Slugs == {<<LetterA>>, <<LetterA + 1>>}
ModernName(slug, uid) == slug \o <<Dash>> \o uid
NoteFiles == {ModernName(s, u) : s \in Slugs, u \in Uids}

\* Paths.  A path is the sequence of all its characters; the separator of
\* directories and the dot are two more characters, which no comparison of
\* file names meets.
Dot == -1
Slash == -2

\* str.rfind, counting from 1: the last position of ch in s, 0 when it is not
\* in s.
RFind(s, ch) ==
    LET at == {i \in 1..Len(s) : s[i] = ch}
    IN  IF at = {} THEN 0 ELSE CHOOSE i \in at : \A j \in at : j <= i

\* os.path.basename
basename(p) == SubSeq(p, RFind(p, Slash) + 1, Len(p))

\* os.path.splitext(p)[0]: the path up to its last dot, unless only dots come
\* before that dot in the last component.
splitext_root(p) ==
    LET sepIndex == RFind(p, Slash)
        dotIndex == RFind(p, Dot)
    IN  IF dotIndex > sepIndex
           /\ \E i \in (sepIndex + 1)..(dotIndex - 1) : p[i] # Dot
        THEN SubSeq(p, 1, dotIndex - 1)
        ELSE p

\* _get_unique_id on a path.
GetUniqueIdOfPath(filename) == get_unique_id(splitext_root(basename(filename)))

\* The names a note file is given: a slug and a UID, the UID last, or first in
\* the names of older files, in a directory, with the extension ".yaml".
YamlExt == <<Dot, LetterA + 24, LetterA, LetterA + 12, LetterA + 11>>
SlugAt(len, dashAt) == [i \in 1..len |-> IF i = dashAt THEN Dash ELSE LetterA]
SlugsN == UNION {{SlugAt(len, d) : d \in 0..len} : len \in 0..MaxSlugLen}
DirsN == {<<>>, <<LetterA, Slash>>,
          <<LetterA, Dot, LetterA, Dash, LetterA, Slash>>}
NotesN == [dir : DirsN, slug : SlugsN, uid : Uids, legacy : BOOLEAN]
NoNote == [dir |-> <<>>, slug |-> <<>>, uid |-> <<>>, legacy |-> FALSE]
PathOf(n) ==
    n.dir \o (IF n.legacy THEN n.uid \o <<Dash>> \o n.slug
                          ELSE n.slug \o <<Dash>> \o n.uid) \o YamlExt

\* Python's comparison of two strings (sequences of characters).
RECURSIVE StrLess(_, _)
StrLess(a, b) ==
    IF b = <<>> THEN FALSE
    ELSE IF a = <<>> THEN TRUE
    ELSE IF a[1] # b[1] THEN a[1] < b[1]
    ELSE StrLess(Tail(a), Tail(b))

(***************************************************************************)
(* Version strings.  A version is the list of its dot-separated            *)
(* components followed by the "-<count>" suffixes appended to it.  A       *)
(* component n >= 0 is the number n; a negative component stands for a     *)
(* component that is not a number: PreRc for "0rc1", Star for the whole    *)
(* name "*working-copy*".  "1.0.0.0rc1" is comps <<1,0,0,PreRc>>.  Eol is   *)
(* for "eol", a component with characters that release_tag_re has not.     *)
(***************************************************************************)
PreRc == -1
PreB == -3
Eol == -2
Star == -9

V(comps) == [comps |-> comps, dev |-> <<>>]
NoVersion == V(<<>>)
WorkingCopy == V(<<Star>>)
ZeroVersion == V(<<0, 0, 0>>)

TagNames == {V(<<1, 0, 0, PreRc>>), V(<<1, 0, 0>>), V(<<2, 0, 0>>)}

\* '{}-{}'.format(tag, count)
FormatDev(tag, count) == [tag EXCEPT !.dev = Append(@, count)]

\* release_tag_re.match(tag): the name starts with a digit, '.', 'a', 'b',
\* 'v' or "rc"; what follows the matched prefix is not looked at.
IsPreComp(c) == c \in {PreRc, PreB}
release_tag_re_match(tag) ==
    /\ tag.comps # <<>>
    /\ (tag.comps[1] >= 0 \/ IsPreComp(tag.comps[1]))

\* pre_release_tag_re.search(tag): the name ends with ".<digits><a|b|rc><digits>".
pre_release_tag_re_search(tag) ==
    /\ Len(tag.comps) >= 2
    /\ IsPreComp(tag.comps[Len(tag.comps)])
    /\ tag.dev = <<>>

strip_pre_release(tag) ==
    IF pre_release_tag_re_search(tag)
    THEN [tag EXCEPT !.comps = SubSeq(@, 1, Len(@) - 1)]
    ELSE tag

\* _parse_version: the first three dot-separated parts, as numbers where
\* int() accepts them.  The last part carries the "-<count>" suffixes.
ParsePart(tag, i) ==
    IF i > Len(tag.comps) THEN <<"int", 0, <<>>>>
    ELSE IF tag.comps[i] >= 0 /\ (i < Len(tag.comps) \/ tag.dev = <<>>)
         THEN <<"int", tag.comps[i], <<>>>>
         ELSE <<"str", tag.comps[i], IF i = Len(tag.comps) THEN tag.dev ELSE <<>>>>
parse_version(tag) == <<ParsePart(tag, 1), ParsePart(tag, 2), ParsePart(tag, 3)>>

(***************************************************************************)
(* State.                                                                  *)
(***************************************************************************)
VARIABLES
    commits,          \* the object store: commit id i is commits[i]
    tags,             \* annotated tags in the order they were created
    worktree,         \* staged and unstaged changes against HEAD
    refs,             \* the branches that have a ref of their own: name -> commit
    pc,               \* where get_notes_by_version is
    conf,             \* the Config the Scanner was built with
    scan,             \* the local variables of get_notes_by_version
    tracker,          \* the _ChangeTracker
    deleted_bad_uids, \* _ChangeAggregator._deleted_bad_uids
    todo,             \* _topo_traversal: the stack, top first
    emitted,          \* _topo_traversal: the emitted set
    files_and_tags,   \* the buckets, before and after collapsing
    trimmed,          \* the result
    calls,            \* history: the tracker calls made, in order
    yielded,          \* history: the entries the walker yielded, in order
    previous,         \* history: the outcomes of the earlier calls, in order
    called_on,        \* the note file that _get_unique_id is called on, or
                      \* the content that parse_note_file is called on
    returned          \* what _get_unique_id returned for it, or the list of
                      \* the one outcome of parse_note_file

vars == <<commits, tags, worktree, refs, pc, conf, scan, tracker, deleted_bad_uids,
          todo, emitted, files_and_tags, trimmed, calls, yielded, previous,
          called_on, returned>>

repoVars == <<commits, tags, worktree, refs>>
nameVars == <<called_on, returned>>
scanVars == <<conf, scan, tracker, deleted_bad_uids, todo, emitted,
              files_and_tags, trimmed, calls, yielded, previous>>

(***************************************************************************)
(* Sequences and sets.                                                     *)
(***************************************************************************)
Range(s) == {s[i] : i \in 1..Len(s)}
Contains(s, x) == \E i \in 1..Len(s) : s[i] = x

\* list.index(x): the first position of x (x is in s).
IndexOf(s, x) == CHOOSE i \in 1..Len(s) : s[i] = x /\ \A j \in 1..(i - 1) : s[j] # x

RECURSIVE SeqConcat(_)
SeqConcat(ss) == IF ss = <<>> THEN <<>> ELSE Head(ss) \o SeqConcat(Tail(ss))

\* The elements of a finite set in ascending order of Less (a strict total
\* order on the set).
SortSet(S, Less(_, _)) ==
    [k \in 1..Cardinality(S) |->
        CHOOSE x \in S : Cardinality({y \in S : Less(y, x)}) = k - 1]

\* sorted(list): ascending, equal elements keep their order.
Sorted(s, Less(_, _)) ==
    LET Rank(j) == Cardinality({i \in 1..Len(s) : Less(s[i], s[j])})
                   + Cardinality({i \in 1..(j - 1) :
                                     ~Less(s[i], s[j]) /\ ~Less(s[j], s[i])})
    IN  [k \in 1..Len(s) |-> s[CHOOSE j \in 1..Len(s) : Rank(j) = k - 1]]

(***************************************************************************)
(* The repository: commits, trees, tags.                                   *)
(***************************************************************************)
NoSha == 0
NumCommits == Len(commits)
CommitIds == 1..NumCommits
Parents(c) == commits[c].parents
Tree(c) == commits[c].tree
EmptyTree == [p \in NoteFiles |-> 0]

RECURSIVE Reach(_)
Reach(c) == {c} \cup UNION {Reach(Parents(c)[i]) : i \in 1..Len(Parents(c))}

Children(c) == {d \in CommitIds : Contains(Parents(d), c)}
Tips == {c \in CommitIds : Children(c) = {}}

\* refs[b'HEAD']: the commit checked out, the one made last.
HeadCommit == NumCommits

\* Branch names.  NoBranch is the None of the option branch; the series
\* branches are the names that match branch_name_re, here in the order
\* sorted() gives them.
NoBranch == ""
SeriesNames == <<"stable/a", "stable/b">>
BranchNames == {"master"} \cup {SeriesNames[i] : i \in 1..Len(SeriesNames)}

\* The value in refs of the branch that HEAD is a symbolic reference to: the
\* branch follows the commits made on HEAD.
OnHead == 0

\* Scanner._get_ref, for HEAD (NoBranch) and for the branches of the
\* repository; master is the branch checked out when it has no ref of its own.
GetRef(name) ==
    IF name = NoBranch THEN HeadCommit
    ELSE IF name \in DOMAIN refs /\ refs[name] # OnHead THEN refs[name]
    ELSE HeadCommit

\* The commits the branches of the repository and HEAD point to.
BranchHeads == {HeadCommit} \cup {GetRef(n) : n \in DOMAIN refs}

\* repo.get_walker(head): the commits reachable from head, most recent commit
\* time first.  Commits are made one after the other, so a commit made later
\* has the later commit time.
IntGreater(a, b) == a > b
GetWalker(head) == SortSet(Reach(head), IntGreater)

\* RenoRepo.get_tags_on_commit: the names of the tags on a commit, sorted by
\* tag date.  A tag's date is its position in the order of creation.
TagDate(name) == CHOOSE i \in 1..Len(tags) : tags[i].name = name
DateLess(a, b) == TagDate(a) < TagDate(b)
\* (GetTagsOnCommitNewestFirst: the same sorted the other way.)
DateGreater(a, b) == TagDate(a) > TagDate(b)
GetTagsOnCommitNewestFirst(sha) ==
    SortSet({tags[i].name : i \in {j \in 1..Len(tags) : tags[j].commit = sha}},
            DateGreater)
get_tags_on_commit(sha) ==
    SortSet({tags[i].name : i \in {j \in 1..Len(tags) : tags[j].commit = sha}},
            DateLess)

\* Scanner._get_valid_tags_on_commit
get_valid_tags_on_commit(sha) ==
    SelectSeq(get_tags_on_commit(sha), release_tag_re_match)

\* Scanner._get_tags_on_branch, for the branch whose head is the commit head.
get_tags_on_branch(head) ==
    LET w == GetWalker(head)
    IN  SeqConcat([i \in 1..Len(w) |-> get_valid_tags_on_commit(w[i])])

\* Scanner._get_current_version: the loop, from the commit and count it is at.
RECURSIVE CurrentVersionLoop(_, _)
CurrentVersionLoop(commit, count) ==
    LET tgs == get_valid_tags_on_commit(commit)
    IN  IF tgs # <<>>
        THEN IF count # 0 THEN FormatDev(tgs[Len(tgs)], count)
                          ELSE tgs[Len(tgs)]
        ELSE IF Parents(commit) # <<>>
             THEN CurrentVersionLoop(Parents(commit)[1], count + 1)
             ELSE ZeroVersion
\* (GetCurrentVersionKept: the same, starting a later call from the version the
\* call before it ended with.)
GetCurrentVersionKept(head) ==
    IF scan.current_version # NoVersion THEN scan.current_version
    ELSE CurrentVersionLoop(head, 0)
\* (GetCurrentVersionLastParent: the same loop following the last parent.)
GetCurrentVersionLastParent(head) ==
    LET RECURSIVE Loop(_, _)
        Loop(commit, count) ==
            LET tgs == get_valid_tags_on_commit(commit)
            IN  IF tgs # <<>>
                THEN IF count # 0 THEN FormatDev(tgs[Len(tgs)], count)
                                  ELSE tgs[Len(tgs)]
                ELSE IF Parents(commit) # <<>>
                     THEN Loop(Parents(commit)[Len(Parents(commit))], count + 1)
                     ELSE ZeroVersion
    IN  Loop(head, 0)
get_current_version(head) == CurrentVersionLoop(head, 0)

(***************************************************************************)
(* Changes of a commit.  A change is its type and the path it reports      *)
(* (the old path of a delete, the new path otherwise); NoChange is the     *)
(* None that tree_changes_for_merge puts where a parent does not differ.   *)
(***************************************************************************)
NoChange == [type |-> "none", path |-> <<>>]
ChangeOf(old, new, p) ==
    IF old[p] = new[p] THEN NoChange
    ELSE IF old[p] = 0 THEN [type |-> "add", path |-> p]
    ELSE IF new[p] = 0 THEN [type |-> "delete", path |-> p]
    ELSE [type |-> "modify", path |-> p]

ChangedPaths(old, new) == {p \in NoteFiles : old[p] # new[p]}

\* diff_tree.tree_changes: one change per differing path, in path order.
tree_changes(old, new) ==
    LET ps == SortSet(ChangedPaths(old, new), StrLess)
    IN  [i \in 1..Len(ps) |-> ChangeOf(old, new, ps[i])]

\* diff_tree.tree_changes_for_merge: for each path that differs from some
\* parent, the list of its changes against every parent, kept only if the
\* path is in conflict.
AllSame(S) == Cardinality(S) <= 1
MergeConflict(olds, new, p) ==
    LET chs == [i \in 1..Len(olds) |-> ChangeOf(olds[i], new, p)]
        have == {i \in 1..Len(olds) : chs[i] # NoChange}
    IN  IF \A i \in have : chs[i].type = "delete"
        THEN ~AllSame({olds[i][p] : i \in have})
        ELSE IF ~AllSame({chs[i].type : i \in have}) THEN TRUE
        ELSE have = 1..Len(olds)
tree_changes_for_merge(olds, new) ==
    LET changed == UNION {ChangedPaths(olds[i], new) : i \in 1..Len(olds)}
        ps == SortSet({p \in changed : MergeConflict(olds, new, p)}, StrLess)
    IN  [k \in 1..Len(ps) |-> [i \in 1..Len(olds) |-> ChangeOf(olds[i], new, ps[k])]]

HasSubtree(tree) == \E p \in NoteFiles : tree[p] # 0

\* _changes_in_subdir: a list whose elements are changes (no parent, one
\* parent) or lists of changes (a merge).
changes_in_subdir(c) ==
    IF Len(Parents(c)) = 0
    THEN [i \in 1..Len(tree_changes(EmptyTree, Tree(c))) |->
             <<tree_changes(EmptyTree, Tree(c))[i]>>]
    ELSE IF Len(Parents(c)) = 1
    THEN [i \in 1..Len(tree_changes(Tree(Parents(c)[1]), Tree(c))) |->
             <<tree_changes(Tree(Parents(c)[1]), Tree(c))[i]>>]
    ELSE LET withSub == SelectSeq([i \in 1..Len(Parents(c)) |-> Tree(Parents(c)[i])],
                                  HasSubtree)
         IN  tree_changes_for_merge(withSub, Tree(c))

\* WalkEntry.changes() of a merge commit is empty.
EntryHasNoChanges(c) ==
    tree_changes_for_merge([i \in 1..Len(Parents(c)) |-> Tree(Parents(c)[i])],
                           Tree(c)) = <<>>

(***************************************************************************)
(* _ChangeAggregator.aggregate_changes.  bad is _deleted_bad_uids before   *)
(* the call.  The value is the list of results, _deleted_bad_uids after    *)
(* the call and the exception raised ("" when none).  A result is          *)
(* (uid, type, path, sha), with the old path too for a rename.             *)
(***************************************************************************)
Result(uid, type, old, path, sha) ==
    [uid |-> uid, type |-> type, old |-> old, path |-> path, sha |-> sha]

TypesOf(chs) == {chs[i].type : i \in 1..Len(chs)}

\* The first entry of a type among the entries of a UID.
FirstOfType(chs, type) ==
    chs[CHOOSE i \in 1..Len(chs) :
            /\ chs[i].type = type
            /\ \A j \in 1..(i - 1) : chs[j].type # type]

\* The rename made of an add and a delete: the path of the delete, then the
\* path and the commit of the add.
\* (RenameOfSwapped: the same with the two paths in each other's place.)
RenameOfSwapped(uid, chs, sha) ==
    Result(uid, "rename", FirstOfType(chs, "add").path,
           FirstOfType(chs, "delete").path, sha)
RenameOf(uid, chs, sha) ==
    Result(uid, "rename", FirstOfType(chs, "delete").path,
           FirstOfType(chs, "add").path, sha)

\* One result per entry, for the entries of a UID that are all modifications
\* or all deletes.
\* (OnePerEntryOnce: one result for each path among the entries.)
OnePerEntryOnce(uid, type, chs, sha) ==
    LET ps == SortSet({chs[i].path : i \in 1..Len(chs)}, StrLess)
    IN  [i \in 1..Len(ps) |-> Result(uid, type, <<>>, ps[i], sha)]
OnePerEntry(uid, type, chs, sha) ==
    [i \in 1..Len(chs) |-> Result(uid, type, <<>>, chs[i].path, sha)]

\* (AggregateUidOneDeleteTaints: the same with the UID of a single delete put
\* in _deleted_bad_uids as well.)
AggregateUidOneDeleteTaints(uid, chs, sha, bad) ==
    IF Len(chs) = 1
    THEN [results |-> <<Result(uid, chs[1].type, <<>>, chs[1].path, sha)>>,
          taint |-> chs[1].type = "delete", error |-> ""]
    ELSE IF TypesOf(chs) = {"add", "delete"}
    THEN [results |-> <<RenameOf(uid, chs, sha)>>, taint |-> FALSE, error |-> ""]
    ELSE IF TypesOf(chs) = {"modify"}
    THEN [results |-> OnePerEntry(uid, "modify", chs, sha),
          taint |-> FALSE, error |-> ""]
    ELSE IF TypesOf(chs) = {"delete"}
    THEN [results |-> OnePerEntry(uid, "delete", chs, sha),
          taint |-> TRUE, error |-> ""]
    ELSE IF TypesOf(chs) = {"add"}
    THEN [results |-> <<>>, taint |-> FALSE,
          error |-> IF uid \notin bad THEN "DuplicateUIDAdd" ELSE ""]
    ELSE [results |-> <<>>, taint |-> FALSE, error |-> "UnrecognizedChangeSet"]
AggregateUid(uid, chs, sha, bad) ==
    IF Len(chs) = 1
    THEN [results |-> <<Result(uid, chs[1].type, <<>>, chs[1].path, sha)>>,
          taint |-> FALSE, error |-> ""]
    ELSE IF TypesOf(chs) = {"add", "delete"}
    THEN [results |-> <<RenameOf(uid, chs, sha)>>, taint |-> FALSE, error |-> ""]
    ELSE IF TypesOf(chs) = {"modify"}
    THEN [results |-> OnePerEntry(uid, "modify", chs, sha),
          taint |-> FALSE, error |-> ""]
    ELSE IF TypesOf(chs) = {"delete"}
    THEN [results |-> OnePerEntry(uid, "delete", chs, sha),
          taint |-> TRUE, error |-> ""]
    ELSE IF TypesOf(chs) = {"add"}
    THEN [results |-> <<>>, taint |-> FALSE,
          error |-> IF uid \notin bad THEN "DuplicateUIDAdd" ELSE ""]
    ELSE [results |-> <<>>, taint |-> FALSE, error |-> "UnrecognizedChangeSet"]

aggregate_changes(bad, sha, changes) ==
    LET flat == SeqConcat(changes)
        uids == SortSet({get_unique_id(flat[i].path) :
                            i \in {j \in 1..Len(flat) : flat[j] # NoChange}},
                        StrLess)
        ByUid(uid) == SelectSeq(flat,
                          LAMBDA c : c # NoChange /\ get_unique_id(c.path) = uid)
        per == [k \in 1..Len(uids) |-> AggregateUid(uids[k], ByUid(uids[k]), sha, bad)]
        errs == {k \in 1..Len(uids) : per[k].error # ""}
    IN  IF \E i \in 1..Len(flat) : flat[i] = NoChange
        THEN [results |-> <<>>, bad |-> bad, error |-> "AttributeError"]
        ELSE IF errs # {}
        THEN [results |-> <<>>, bad |-> bad,
              error |-> per[CHOOSE k \in errs : \A j \in errs : k <= j].error]
        ELSE [results |-> SeqConcat([k \in 1..Len(uids) |-> per[k].results]),
              bad |-> bad \cup {uids[k] : k \in {j \in 1..Len(uids) : per[j].taint}},
              error |-> ""]

(***************************************************************************)
(* _ChangeTracker.  A tracker is the record of its four fields; the        *)
(* dictionaries are functions on the keys they hold.                       *)
(***************************************************************************)
NewTracker ==
    [versions |-> <<>>,
     earliest_seen |-> <<>>,
     last_name_by_id |-> <<>>,
     uniqueids_deleted |-> {}]

DictSet(d, k, v) == (k :> v) @@ d

\* collections.OrderedDict: the list of its (key, value) pairs in the order
\* the keys were first set.
OdHas(od, k) == \E i \in 1..Len(od) : od[i][1] = k
OdGet(od, k) == od[CHOOSE i \in 1..Len(od) : od[i][1] = k][2]
OdSet(od, k, v) ==
    IF OdHas(od, k)
    THEN [i \in 1..Len(od) |-> IF od[i][1] = k THEN <<k, v>> ELSE od[i]]
    ELSE Append(od, <<k, v>>)

\* _ChangeTracker._common
\* (TrackerCommonKeepFirst: the same keeping the first version seen for a UID.)
TrackerCommonKeepFirst(t, uniqueid, version) ==
    [t EXCEPT !.versions = IF Contains(@, version) THEN @ ELSE Append(@, version),
              !.earliest_seen = IF OdHas(@, uniqueid) THEN @
                                ELSE OdSet(@, uniqueid, version)]
\* (TrackerCommonAppends: the same appending the version whether or not the
\* list has it.)
TrackerCommonAppends(t, uniqueid, version) ==
    [t EXCEPT !.versions = Append(@, version),
              !.earliest_seen = OdSet(@, uniqueid, version)]
tracker_common(t, uniqueid, version) ==
    [t EXCEPT !.versions = IF Contains(@, version) THEN @ ELSE Append(@, version),
              !.earliest_seen = OdSet(@, uniqueid, version)]

\* _ChangeTracker.add
tracker_add(t, filename, sha, version) ==
    LET uniqueid == get_unique_id(filename)
        t1 == tracker_common(t, uniqueid, version)
    IN  IF uniqueid \in t1.uniqueids_deleted THEN t1
        ELSE IF uniqueid \notin DOMAIN t1.last_name_by_id
        THEN [t1 EXCEPT !.last_name_by_id = DictSet(@, uniqueid, <<filename, sha>>)]
        ELSE t1

\* _ChangeTracker.rename
\* (TrackerRenameForgets: the same without remembering the new name.)
TrackerRenameForgets(t, filename, sha, version) ==
    tracker_common(t, get_unique_id(filename), version)
tracker_rename(t, filename, sha, version) ==
    LET uniqueid == get_unique_id(filename)
        t1 == tracker_common(t, uniqueid, version)
    IN  IF uniqueid \in t1.uniqueids_deleted THEN t1
        ELSE IF uniqueid \notin DOMAIN t1.last_name_by_id
        THEN [t1 EXCEPT !.last_name_by_id = DictSet(@, uniqueid, <<filename, sha>>)]
        ELSE t1

\* _ChangeTracker.modify
\* (TrackerModifyOverwrites: the same storing the name of every modify.)
TrackerModifyOverwrites(t, filename, sha, version) ==
    LET uniqueid == get_unique_id(filename)
        t1 == tracker_common(t, uniqueid, version)
    IN  IF uniqueid \in t1.uniqueids_deleted THEN t1
        ELSE [t1 EXCEPT !.last_name_by_id = DictSet(@, uniqueid, <<filename, sha>>)]
tracker_modify(t, filename, sha, version) ==
    LET uniqueid == get_unique_id(filename)
        t1 == tracker_common(t, uniqueid, version)
    IN  IF uniqueid \in t1.uniqueids_deleted THEN t1
        ELSE IF uniqueid \notin DOMAIN t1.last_name_by_id
        THEN [t1 EXCEPT !.last_name_by_id = DictSet(@, uniqueid, <<filename, sha>>)]
        ELSE t1

\* _ChangeTracker.delete
\* (TrackerDeleteForgets: the same without recording the UID as deleted.)
TrackerDeleteForgets(t, filename, sha, version) ==
    tracker_common(t, get_unique_id(filename), version)
tracker_delete(t, filename, sha, version) ==
    LET uniqueid == get_unique_id(filename)
        t1 == tracker_common(t, uniqueid, version)
    IN  IF uniqueid \notin DOMAIN t1.last_name_by_id
        THEN [t1 EXCEPT !.uniqueids_deleted = @ \cup {uniqueid}]
        ELSE t1

\* One tracker call, by the type of the change.
TrackerCall(t, type, filename, sha, version) ==
    CASE type = "add" -> tracker_add(t, filename, sha, version)
      [] type = "delete" -> tracker_delete(t, filename, sha, version)
      [] type = "rename" -> tracker_rename(t, filename, sha, version)
      [] type = "modify" -> tracker_modify(t, filename, sha, version)

\* The record of a tracker call in the history variable calls.
Call(type, filename, sha, version) ==
    [type |-> type, uid |-> get_unique_id(filename), filename |-> filename,
     sha |-> sha, version |-> version]

\* The body of the loop over the aggregated changes of one commit
\* (get_notes_by_version): os.path.join(notesdir, path) is the path itself,
\* the directory prefix being left out of file names.
\* (ApplyResultsOldPath: the same giving the tracker the old path of a rename.)
RECURSIVE ApplyResultsOldPath(_, _, _, _)
ApplyResultsOldPath(t, results, sha, version) ==
    IF results = <<>> THEN t
    ELSE ApplyResultsOldPath(
             TrackerCall(t, Head(results).type,
                         IF Head(results).type = "rename" THEN Head(results).old
                         ELSE Head(results).path,
                         sha, version),
             Tail(results), sha, version)
RECURSIVE ApplyResults(_, _, _, _)
ApplyResults(t, results, sha, version) ==
    IF results = <<>> THEN t
    ELSE ApplyResults(TrackerCall(t, Head(results).type, Head(results).path,
                                  sha, version),
                      Tail(results), sha, version)

(***************************************************************************)
(* The series branches and the base of a branch.                           *)
(***************************************************************************)
\* Scanner._get_series_branches
get_series_branches == SelectSeq(SeriesNames, LAMBDA n : n \in DOMAIN refs)

\* Scanner._get_earlier_branch (NoBranch for None)
\* (GetEarlierBranchSame: the same giving the branch itself when it is not the
\* first one.)
GetEarlierBranchSame(branch) ==
    LET branch_names == get_series_branches
    IN  IF ~Contains(branch_names, branch) THEN NoBranch
        ELSE IF IndexOf(branch_names, branch) = 1 THEN NoBranch
        ELSE branch
get_earlier_branch(branch) ==
    LET branch_names == get_series_branches
    IN  IF ~Contains(branch_names, branch) THEN NoBranch
        ELSE IF IndexOf(branch_names, branch) = 1 THEN NoBranch
        ELSE branch_names[IndexOf(branch_names, branch) - 1]

\* (GetBranchBaseOfHead: the same looking at the head of the branch only.)
GetBranchBaseOfHead(branch) ==
    LET tgs == get_valid_tags_on_commit(GetRef(branch))
    IN  IF GetRef(branch) \in Reach(GetRef("master")) /\ tgs # <<>>
        THEN tgs[Len(tgs)] ELSE NoVersion
\* Scanner._get_branch_base (NoVersion for None): the last tag on the first
\* commit the walker of the branch gives that is on master too.
get_branch_base(branch) ==
    LET master_commits == Reach(GetRef("master"))
        w == GetWalker(GetRef(branch))
        on == {i \in 1..Len(w) : w[i] \in master_commits}
    IN  IF on = {} THEN NoVersion
        ELSE LET tgs == get_valid_tags_on_commit(
                            w[CHOOSE i \in on : \A j \in on : i <= j])
             IN  IF tgs # <<>> THEN tgs[Len(tgs)] ELSE NoVersion

(***************************************************************************)
(* Scanner._find_scan_stop_point.  The value is the stop tag (NoVersion    *)
(* for None) and the exception raised.                                     *)
(***************************************************************************)
find_scan_stop_point(earliest_version, versions_by_date, collapse_pre_releases, branch) ==
    IF earliest_version = NoVersion
    THEN [tag |-> NoVersion, error |-> ""]
    ELSE IF ~Contains(versions_by_date, earliest_version)
    THEN [tag |-> NoVersion, error |-> ""]
    ELSE IF branch # NoBranch /\ branch # "master"
    THEN IF get_earlier_branch(branch) = NoBranch
         THEN [tag |-> NoVersion, error |-> ""]
         ELSE [tag |-> get_branch_base(get_earlier_branch(branch)), error |-> ""]
    ELSE LET idx == IndexOf(versions_by_date, earliest_version)
             earliest_parts == parse_version(earliest_version)
             differing == {i \in (idx + 1)..Len(versions_by_date) :
                              parse_version(versions_by_date[i]) # earliest_parts}
         IN  IF pre_release_tag_re_search(earliest_version) /\ ~collapse_pre_releases
             THEN IF idx + 1 <= Len(versions_by_date)
                  THEN [tag |-> versions_by_date[idx + 1], error |-> ""]
                  ELSE [tag |-> NoVersion, error |-> "IndexError"]
             ELSE IF differing = {}
                  THEN [tag |-> NoVersion, error |-> ""]
                  ELSE [tag |-> versions_by_date[CHOOSE i \in differing :
                                                    \A j \in differing : i <= j],
                        error |-> ""]

(***************************************************************************)
(* The working copy: the changes dulwich reports against HEAD.  A change   *)
(* is its kind and its path; the unstaged ones are handled first, then the *)
(* staged adds, modifies and deletes, each kind in path order.             *)
(***************************************************************************)
StagedKinds == <<"staged_add", "staged_modify", "staged_delete">>
WorktreeType(kind) ==
    CASE kind = "unstaged_present" -> "add"
      [] kind = "unstaged_missing" -> "delete"
      [] kind = "staged_add" -> "add"
      [] kind = "staged_modify" -> "modify"
      [] kind = "staged_delete" -> "delete"
UnstagedResults ==
    LET un == {w \in worktree : w.kind \in {"unstaged_present", "unstaged_missing"}}
        ps == SortSet({w.path : w \in un}, StrLess)
    IN  [i \in 1..Len(ps) |->
            Result(get_unique_id(ps[i]),
                   WorktreeType((CHOOSE w \in un : w.path = ps[i]).kind),
                   <<>>, ps[i], NoSha)]
StagedResults ==
    SeqConcat([k \in 1..Len(StagedKinds) |->
        LET ps == SortSet({w.path : w \in {x \in worktree : x.kind = StagedKinds[k]}},
                          StrLess)
        IN  [i \in 1..Len(ps) |->
                Result(get_unique_id(ps[i]), WorktreeType(StagedKinds[k]),
                       <<>>, ps[i], NoSha)]])
WorktreeResults == UnstagedResults \o StagedResults

\* The calls ApplyResults makes, for the history variable.
CallsOf(results, sha, version) ==
    [i \in 1..Len(results) |-> Call(results[i].type, results[i].path, sha, version)]

(***************************************************************************)
(* Git operations that build the repository (the operations the tests of   *)
(* the scanner run: commits that add, edit, rename or remove a note or     *)
(* touch another file, merges, signed tags, staged and unstaged changes).  *)
(***************************************************************************)
Present(tree) == {p \in NoteFiles : tree[p] # 0}

\* The trees one commit away from tree, by the kinds of change allowed and the
\* note files in use.
NextTrees(tree, kinds, files) ==
    (IF "none" \in kinds THEN {tree} ELSE {})
    \cup (IF "add" \in kinds
          THEN {[tree EXCEPT ![p] = 1] : p \in files \ Present(tree)} ELSE {})
    \cup (IF "delete" \in kinds
          THEN {[tree EXCEPT ![p] = 0] : p \in Present(tree)} ELSE {})
    \cup (IF "modify" \in kinds
          THEN {[tree EXCEPT ![p] = @ + 1] : p \in Present(tree)} ELSE {})
    \cup (IF "rename" \in kinds
          THEN {[tree EXCEPT ![p] = 0, ![q] = tree[p]] :
                   p \in Present(tree), q \in files \ Present(tree)}
          ELSE {})

AllKinds == {"none", "add", "delete", "modify", "rename"}

\* The commits still to be made suffice to merge the open branches into one.
CanStillJoin(maxCommits) ==
    Cardinality(Tips \ BranchHeads) <= maxCommits - NumCommits

\* git commit: a commit on top of the checked-out commit, or (branching) on
\* top of any commit; the first commit has no parent.
GitCommit(maxCommits, branching, kinds, files) ==
    /\ pc = "build"
    /\ worktree = {}
    /\ NumCommits < maxCommits
    /\ \E parent \in (IF NumCommits = 0 THEN {0}
                      ELSE IF branching THEN CommitIds ELSE {HeadCommit}) :
         \E tree \in NextTrees(IF parent = 0 THEN EmptyTree ELSE Tree(parent),
                               kinds, files) :
            commits' = Append(commits,
                   [parents |-> IF parent = 0 THEN <<>> ELSE <<parent>>,
                    tree |-> tree])
    /\ UNCHANGED <<tags, worktree, refs, pc>>
    /\ UNCHANGED scanVars
    /\ UNCHANGED nameVars
    /\ CanStillJoin(maxCommits)'

\* git merge --no-ff: a commit with parents (p0, p1) whose tree takes every
\* path from one of the two parents and, when the merge is amended before it
\* is committed, has one more note that neither parent has.
GitMerge(maxCommits, files) ==
    /\ pc = "build"
    /\ worktree = {}
    /\ NumCommits < maxCommits
    /\ \E p0 \in CommitIds, p1 \in CommitIds :
         /\ p1 \notin Reach(p0)
         /\ \E theirs \in SUBSET files :
              \E extra \in {{}} \cup {{p} : p \in files \ (Present(Tree(p0))
                                                            \cup Present(Tree(p1)))} :
                commits' = Append(commits,
                    [parents |-> <<p0, p1>>,
                     tree |-> [p \in NoteFiles |->
                                 IF p \in extra THEN 1
                                 ELSE IF p \in theirs THEN Tree(p1)[p]
                                 ELSE Tree(p0)[p]]])
    /\ UNCHANGED <<tags, worktree, refs, pc>>
    /\ UNCHANGED scanVars
    /\ UNCHANGED nameVars
    /\ CanStillJoin(maxCommits)'

\* git tag -s: a new annotated tag on a commit.
GitTag(maxTags, names) ==
    /\ pc = "build"
    /\ Len(tags) < maxTags
    /\ \E name \in names, c \in CommitIds :
         /\ \A i \in 1..Len(tags) : tags[i].name # name
         /\ tags' = Append(tags, [name |-> name, commit |-> c])
    /\ UNCHANGED <<commits, worktree, refs, pc>>
    /\ UNCHANGED scanVars
    /\ UNCHANGED nameVars

\* git branch <name> <commit>: a new branch at a commit.
GitBranch(names) ==
    /\ pc = "build"
    /\ \E name \in names \ DOMAIN refs, c \in CommitIds :
         refs' = (name :> c) @@ refs
    /\ UNCHANGED <<commits, tags, worktree, pc>>
    /\ UNCHANGED scanVars
    /\ UNCHANGED nameVars

\* git checkout <commit>; git checkout -b <name>; git commit: a new branch
\* that starts at a commit of master, checked out, with a first commit of its
\* own.  master stays where it is.
GitCheckoutNewBranch(maxCommits, names, kinds, files) ==
    /\ pc = "build"
    /\ worktree = {}
    /\ NumCommits > 0
    /\ NumCommits < maxCommits
    /\ "master" \notin DOMAIN refs
    /\ \E name \in names \ DOMAIN refs, parent \in Reach(HeadCommit) :
         \E tree \in NextTrees(Tree(parent), kinds, files) :
            /\ commits' = Append(commits, [parents |-> <<parent>>, tree |-> tree])
            /\ refs' = (name :> OnHead) @@ ("master" :> HeadCommit) @@ refs
    /\ UNCHANGED <<tags, worktree, pc>>
    /\ UNCHANGED scanVars
    /\ UNCHANGED nameVars

\* git add / git rm of a note, or an edit or removal left unstaged.
WorktreeChange(maxChanges) ==
    /\ pc = "build"
    /\ NumCommits > 0
    /\ Cardinality(worktree) < maxChanges
    /\ \E kind \in {"unstaged_present", "unstaged_missing",
                    "staged_add", "staged_modify", "staged_delete"},
          path \in NoteFiles :
         /\ \A w \in worktree : w.path # path
         /\ IF kind = "staged_add"
            THEN Tree(HeadCommit)[path] = 0
            ELSE Tree(HeadCommit)[path] # 0
         /\ worktree' = worktree \cup {[kind |-> kind, path |-> path]}
    /\ UNCHANGED <<commits, tags, refs, pc>>
    /\ UNCHANGED scanVars
    /\ UNCHANGED nameVars

(***************************************************************************)
(* Scanner.get_notes_by_version.                                           *)
(***************************************************************************)
NoScan ==
    [current_version |-> NoVersion, versions_by_date |-> <<>>,
     scan_stop_tag |-> NoVersion, earliest_version |-> NoVersion, error |-> ""]

DefaultConf ==
    [branch |-> NoBranch, earliest_version |-> NoVersion,
     collapse_pre_releases |-> TRUE, stop_at_branch_base |-> TRUE,
     ignore_null_merges |-> TRUE, ignore_notes |-> {},
     default_branch |-> "master"]

\* The configurations that differ from the default one in the options given.
ConfsWith(branches, earliest_versions, collapses, stops, null_merges, ignores) ==
    [branch : branches, earliest_version : earliest_versions,
     collapse_pre_releases : collapses, stop_at_branch_base : stops,
     ignore_null_merges : null_merges, ignore_notes : ignores,
     default_branch : {"master"}]

\* "If the user has not told us where to stop, try to work it out for
\* ourselves", on the current branch: the base of the last series branch, in
\* name order, whose base is a tag of the branch.  The value is the stop tag
\* and the earliest version.
\* (CurrentBranchLimitsFirst: the same taking the first such branch in name
\* order.)
CurrentBranchLimitsFirst(versions_by_date) ==
    LET branches == get_series_branches
        hits == {i \in 1..Len(branches) :
                    Contains(versions_by_date, get_branch_base(branches[i]))}
    IN  IF hits = {}
        THEN [tag |-> NoVersion, earliest_version |-> NoVersion, error |-> ""]
        ELSE LET scan_stop_tag ==
                     get_branch_base(branches[CHOOSE i \in hits : \A j \in hits : i <= j])
                 idx == IndexOf(versions_by_date, scan_stop_tag) + 1
             IN  [tag |-> scan_stop_tag,
                  earliest_version |-> IF idx <= Len(versions_by_date)
                                       THEN versions_by_date[idx]
                                       ELSE scan_stop_tag,
                  error |-> ""]
CurrentBranchLimits(versions_by_date) ==
    LET branches == get_series_branches
        hits == {i \in 1..Len(branches) :
                    Contains(versions_by_date, get_branch_base(branches[i]))}
    IN  IF hits = {}
        THEN [tag |-> NoVersion, earliest_version |-> NoVersion, error |-> ""]
        ELSE LET scan_stop_tag ==
                     get_branch_base(branches[CHOOSE i \in hits : \A j \in hits : j <= i])
                 idx == IndexOf(versions_by_date, scan_stop_tag) + 1
             IN  [tag |-> scan_stop_tag,
                  earliest_version |-> IF idx <= Len(versions_by_date)
                                       THEN versions_by_date[idx]
                                       ELSE scan_stop_tag,
                  error |-> ""]

\* The same for a branch given by name: stop at the version before the tag at
\* the base of the branch.  versions_by_date[idx - 1] with idx = 0 is the last
\* element of the list.
NamedBranchLimits(cf, versions_by_date) ==
    LET branch_base == get_branch_base(cf.branch)
        stop == find_scan_stop_point(branch_base, versions_by_date,
                                     cf.collapse_pre_releases, cf.branch)
        pos == IndexOf(versions_by_date, stop.tag)
        earliest == IF stop.tag = NoVersion THEN branch_base
                    ELSE IF pos = 1 THEN versions_by_date[Len(versions_by_date)]
                    ELSE versions_by_date[pos - 1]
    IN  IF stop.error # ""
        THEN [tag |-> NoVersion, earliest_version |-> NoVersion, error |-> stop.error]
        ELSE IF stop.tag # NoVersion /\ ~Contains(versions_by_date, stop.tag)
        THEN [tag |-> stop.tag, earliest_version |-> NoVersion, error |-> "ValueError"]
        ELSE [tag |-> stop.tag,
              earliest_version |->
                  IF cf.collapse_pre_releases /\ pre_release_tag_re_search(earliest)
                  THEN strip_pre_release(earliest) ELSE earliest,
              error |-> ""]

\* "Process the local index, if we are scanning the current branch."
\* (IndexResultsAlways: the same without the test of the branch.)
IndexResultsAlways(branch) == WorktreeResults
IndexResults(branch) == IF branch = NoBranch THEN WorktreeResults ELSE <<>>

\* The stop tag and the earliest version get_notes_by_version goes on with.
ScanLimits(cf, versions_by_date) ==
    LET given == find_scan_stop_point(cf.earliest_version, versions_by_date,
                                      cf.collapse_pre_releases, cf.branch)
    IN  IF cf.branch = NoBranch /\ cf.earliest_version = NoVersion
           /\ cf.stop_at_branch_base
        THEN CurrentBranchLimits(versions_by_date)
        ELSE IF cf.branch # NoBranch /\ cf.stop_at_branch_base
                /\ cf.earliest_version = NoVersion
        THEN NamedBranchLimits(cf, versions_by_date)
        ELSE [tag |-> given.tag, earliest_version |-> cf.earliest_version,
              error |-> given.error]

\* "if earliest_version and earliest_version not in versions_by_date"
\* (UnknownEarliestIgnored: the same with the test left out.)
UnknownEarliestIgnored(earliest_version, versions_by_date) == FALSE
UnknownEarliest(earliest_version, versions_by_date) ==
    /\ earliest_version # NoVersion
    /\ ~Contains(versions_by_date, earliest_version)

\* From the start of get_notes_by_version to the first iteration of the walk:
\* the current version, the tags on the branch, the stop point, the known
\* versions, the working copy folded into a new tracker, and the stack and
\* emitted set of _topo_traversal.
StartScan(cf) ==
    LET head == GetRef(cf.branch)
        current_version == get_current_version(head)
        tagsOnBranch == get_tags_on_branch(head)
        unknown == UnknownEarliest(cf.earliest_version, tagsOnBranch)
        limits == ScanLimits(cf, tagsOnBranch)
        withCurrent == IF Contains(tagsOnBranch, current_version)
                       THEN tagsOnBranch
                       ELSE <<current_version>> \o tagsOnBranch
        versions_by_date == <<WorkingCopy>> \o withCurrent
        index == IndexResults(cf.branch)
    IN  /\ conf' = cf
        /\ IF cf.branch \notin {NoBranch, "master"} \cup DOMAIN refs
           THEN /\ pc' = "error"
                /\ scan' = [NoScan EXCEPT !.error = "UnknownReference"]
                /\ tracker' = NewTracker
                /\ todo' = <<>>
                /\ calls' = <<>>
           ELSE IF unknown \/ limits.error # ""
           THEN /\ pc' = "error"
                /\ scan' = [NoScan EXCEPT
                       !.current_version = current_version,
                       !.versions_by_date = tagsOnBranch,
                       !.error = IF unknown THEN "UnknownEarliestVersion"
                                            ELSE limits.error]
                /\ tracker' = NewTracker
                /\ todo' = <<>>
                /\ calls' = <<>>
           ELSE /\ pc' = "walk"
                /\ scan' = [current_version |-> current_version,
                            versions_by_date |-> versions_by_date,
                            scan_stop_tag |-> limits.tag,
                            earliest_version |-> limits.earliest_version,
                            error |-> ""]
                /\ tracker' = ApplyResults(NewTracker, index, NoSha, WorkingCopy)
                /\ calls' = CallsOf(index, NoSha, WorkingCopy)
                /\ todo' = <<head>>
        /\ deleted_bad_uids' = {}
        /\ emitted' = {}
        /\ yielded' = <<>>
        /\ files_and_tags' = <<>>
        /\ trimmed' = <<>>

\* The first call of get_notes_by_version, on a Scanner built with one of the
\* configurations confs.
ScanBegin(confs) ==
    /\ pc = "build"
    /\ NumCommits > 0
    /\ Tips \subseteq BranchHeads
    /\ \E cf \in confs : StartScan(cf)
    /\ UNCHANGED previous
    /\ UNCHANGED repoVars
    /\ UNCHANGED nameVars

\* What a call of get_notes_by_version that has ended gave: the result, or the
\* exception raised.
Outcome == [result |-> trimmed, error |-> scan.error]

\* One more call of get_notes_by_version, after a call has ended, with the
\* same configuration and the repository as it is.
ScanAgain(maxScans) ==
    /\ pc \in {"done", "error"}
    /\ Len(previous) + 1 < maxScans
    /\ previous' = Append(previous, Outcome)
    /\ StartScan(conf)
    /\ UNCHANGED repoVars
    /\ UNCHANGED nameVars

\* children, as _topo_traversal collects it over the commits reachable from head.
\* (ChildrenForgotten: the same with no child recorded.)
ChildrenForgotten(sha) == {}
ChildrenOnBranch(sha) ==
    {c \in Reach(GetRef(conf.branch)) : Contains(Parents(c), sha)}

\* The null-merge test of _topo_traversal.
\* (IsNullMergeFirstParent: the same looking for the tag on the first parent.)
IsNullMergeFirstParent(sha) ==
    /\ conf.ignore_null_merges
    /\ Len(Parents(sha)) > 1
    /\ get_valid_tags_on_commit(Parents(sha)[1]) # <<>>
    /\ EntryHasNoChanges(sha)
IsNullMerge(sha) ==
    /\ conf.ignore_null_merges
    /\ Len(Parents(sha)) > 1
    /\ \E i \in 2..Len(Parents(sha)) :
         /\ get_valid_tags_on_commit(Parents(sha)[i]) # <<>>
         /\ EntryHasNoChanges(sha)

\* todo.appendleft(p) for each p of ps, left to right, that is not in todo.
\* (PushAllRight: the same with append in place of appendleft.)
RECURSIVE PushAllRight(_, _)
PushAllRight(stack, ps) ==
    IF ps = <<>> THEN stack
    ELSE PushAllRight(IF Contains(stack, Head(ps)) THEN stack
                      ELSE Append(stack, Head(ps)),
                      Tail(ps))
\* (PushAllFirstOnly: the same for the first parent alone.)
PushAllFirstOnly(stack, ps) ==
    IF ps = <<>> \/ Contains(stack, Head(ps)) THEN stack
    ELSE <<Head(ps)>> \o stack
RECURSIVE PushAll(_, _)
PushAll(stack, ps) ==
    IF ps = <<>> THEN stack
    ELSE PushAll(IF Contains(stack, Head(ps)) THEN stack ELSE <<Head(ps)>> \o stack,
                 Tail(ps))

\* The test that ends the loop of get_notes_by_version: scan_stop_tag is set
\* and is among the tags of the entry.
\* (StopsAtNever: the loop without the test.)
StopsAtNever(tgs) == FALSE
StopsAt(tgs) ==
    /\ scan.scan_stop_tag # NoVersion
    /\ Contains(tgs, scan.scan_stop_tag)

\* One iteration of the loop of _topo_traversal, with the body of the loop of
\* get_notes_by_version over the entry it yields.
WalkStep ==
    /\ pc = "walk"
    /\ todo # <<>>
    /\ LET sha == Head(todo)
           rest == Tail(todo)
       IN  IF IsNullMerge(sha)
           THEN /\ emitted' = emitted \cup {Parents(sha)[i] : i \in 2..Len(Parents(sha))}
                                      \cup {sha}
                /\ todo' = PushAll(rest, <<Parents(sha)[1]>>)
                /\ pc' = "walk"
                /\ UNCHANGED <<scan, tracker, deleted_bad_uids, calls, yielded>>
           ELSE IF \E c \in ChildrenOnBranch(sha) : c \notin emitted
           THEN /\ todo' = rest
                /\ pc' = IF rest = <<>> THEN "invert" ELSE "walk"
                /\ UNCHANGED <<scan, tracker, deleted_bad_uids, emitted,
                               calls, yielded>>
           ELSE LET tags_on_commit == get_valid_tags_on_commit(sha)
                    current_version ==
                        IF tags_on_commit = <<>> THEN scan.current_version
                        ELSE tags_on_commit[Len(tags_on_commit)]
                    tgs == IF tags_on_commit = <<>> THEN <<scan.current_version>>
                           ELSE tags_on_commit
                    agg == aggregate_changes(deleted_bad_uids, sha,
                                             changes_in_subdir(sha))
                    stopHere == StopsAt(tgs)
               IN  /\ emitted' = emitted \cup {sha}
                   /\ yielded' = Append(yielded,
                          [commit |-> sha, version |-> current_version])
                   /\ deleted_bad_uids' = agg.bad
                   /\ IF agg.error # ""
                      THEN /\ pc' = "error"
                           /\ scan' = [scan EXCEPT !.current_version = current_version,
                                                   !.error = agg.error]
                           /\ todo' = rest
                           /\ UNCHANGED <<tracker, calls>>
                      ELSE /\ scan' = [scan EXCEPT !.current_version = current_version]
                           /\ tracker' = ApplyResults(tracker, agg.results, sha,
                                                      current_version)
                           /\ calls' = calls \o CallsOf(agg.results, sha, current_version)
                           /\ todo' = IF stopHere THEN rest
                                      ELSE PushAll(rest, Parents(sha))
                           /\ pc' = IF stopHere \/ PushAll(rest, Parents(sha)) = <<>>
                                    THEN "invert" ELSE "walk"
    /\ UNCHANGED <<conf, files_and_tags, trimmed, previous>>
    /\ UNCHANGED repoVars
    /\ UNCHANGED nameVars

\* "Invert earliest_seen": one empty bucket per version of the tracker, then
\* the (path, sha) of every UID that has one, in the bucket of its version.
RECURSIVE InvertLoop(_, _)
InvertLoop(buckets, items) ==
    IF items = <<>> THEN buckets
    ELSE LET uniqueid == Head(items)[1]
             version == Head(items)[2]
         IN  InvertLoop(
                 IF uniqueid \in DOMAIN tracker.last_name_by_id
                 THEN OdSet(buckets, version,
                            Append(OdGet(buckets, version),
                                   tracker.last_name_by_id[uniqueid]))
                 ELSE buckets,
                 Tail(items))

ScanInvert ==
    /\ pc = "invert"
    /\ files_and_tags' =
           InvertLoop([i \in 1..Len(tracker.versions) |-> <<tracker.versions[i], <<>>>>],
                      tracker.earliest_seen)
    /\ pc' = "collapse"
    /\ UNCHANGED <<conf, scan, tracker, deleted_bad_uids, todo, emitted, trimmed,
                   calls, yielded, previous>>
    /\ UNCHANGED repoVars
    /\ UNCHANGED nameVars

\* "Combine pre-releases into the final release".
\* (CanonicalOfAlways: the same without the test that the final version is known.)
CanonicalOfAlways(ov, versions_by_date) == strip_pre_release(ov)
CanonicalOf(ov, versions_by_date) ==
    IF pre_release_tag_re_search(ov)
    THEN IF ~Contains(versions_by_date, strip_pre_release(ov))
         THEN ov
         ELSE strip_pre_release(ov)
    ELSE ov

RECURSIVE CollapseLoop(_, _, _)
CollapseLoop(result, collapsing, versions) ==
    IF versions = <<>> THEN result
    ELSE LET ov == Head(versions)
             canonical_ver == CanonicalOf(ov, scan.versions_by_date)
             created == IF OdHas(result, canonical_ver) THEN result
                        ELSE OdSet(result, canonical_ver, <<>>)
         IN  CollapseLoop(
                 IF ~OdHas(collapsing, ov) THEN result
                 ELSE OdSet(created, canonical_ver,
                            OdGet(created, canonical_ver) \o OdGet(collapsing, ov)),
                 collapsing, Tail(versions))

ScanCollapse ==
    /\ pc = "collapse"
    /\ files_and_tags' =
           IF conf.collapse_pre_releases
           THEN CollapseLoop(<<>>, files_and_tags, scan.versions_by_date)
           ELSE files_and_tags
    /\ pc' = "trim"
    /\ UNCHANGED <<conf, scan, tracker, deleted_bad_uids, todo, emitted, trimmed,
                   calls, yielded, previous>>
    /\ UNCHANGED repoVars
    /\ UNCHANGED nameVars

\* sorted() of a bucket: tuples (path, sha) compare by path, then by sha.
EntryLess(a, b) ==
    \/ StrLess(a[1], b[1])
    \/ a[1] = b[1] /\ a[2] < b[2]

\* files_and_tags.get(ov) is a non-empty list.
HasNotes(od, ov) == OdHas(od, ov) /\ OdGet(od, ov) # <<>>

\* "Only return the parts of files_and_tags that actually have filenames".
RECURSIVE TrimLoop(_, _)
TrimLoop(result, versions) ==
    IF versions = <<>> THEN result
    ELSE LET ov == Head(versions)
         IN  IF ~HasNotes(files_and_tags, ov)
             THEN TrimLoop(result, Tail(versions))
             ELSE LET kept == OdSet(result, ov, Sorted(OdGet(files_and_tags, ov),
                                                       EntryLess))
                  IN  IF scan.earliest_version # NoVersion
                         /\ ov = scan.earliest_version
                      THEN kept
                      ELSE TrimLoop(kept, Tail(versions))

ScanTrim ==
    /\ pc = "trim"
    /\ trimmed' = TrimLoop(<<>>, scan.versions_by_date)
    /\ pc' = "done"
    /\ UNCHANGED <<conf, scan, tracker, deleted_bad_uids, todo, emitted,
                   files_and_tags, calls, yielded, previous>>
    /\ UNCHANGED repoVars
    /\ UNCHANGED nameVars

(***************************************************************************)
(* Specifications.  They share the actions of the scan and differ in the  *)
(* repositories they build.                                                *)
(***************************************************************************)
InitScan ==
    /\ commits = <<>>
    /\ tags = <<>>
    /\ worktree = {}
    /\ refs = <<>>
    /\ pc = "build"
    /\ conf = DefaultConf
    /\ scan = NoScan
    /\ tracker = NewTracker
    /\ deleted_bad_uids = {}
    /\ todo = <<>>
    /\ emitted = {}
    /\ files_and_tags = <<>>
    /\ trimmed = <<>>
    /\ calls = <<>>
    /\ yielded = <<>>
    /\ previous = <<>>

Init ==
    /\ InitScan
    /\ called_on = NoNote
    /\ returned = <<>>

\* Spec: every kind of change to the notes, pre-release and final tags.
Confs == ConfsWith({NoBranch}, {NoVersion}, BOOLEAN, {TRUE}, {TRUE}, {{}})

Next ==
    \/ GitCommit(MaxCommits, FALSE, AllKinds, NoteFiles)
    \/ GitTag(MaxTags, {V(<<1, 0, 0, PreRc>>), V(<<1, 0, 0>>)})
    \/ ScanBegin(Confs)
    \/ WalkStep
    \/ ScanInvert
    \/ ScanCollapse
    \/ ScanTrim

Spec == Init /\ [][Next]_vars

\* SpecVersions: notes that are only added, up to three tags, the options
\* earliest_version and collapse_pre_releases.
ConfsV ==
    ConfsWith({NoBranch}, {NoVersion} \cup TagNames, BOOLEAN, {TRUE}, {TRUE}, {{}})

FilesV == {ModernName(<<LetterA + 1>>, UidStr(1)), ModernName(<<LetterA>>, UidStr(2))}

NextVersions ==
    \/ GitCommit(MaxCommitsV, FALSE, {"none", "add"}, FilesV)
    \/ GitTag(MaxTagsV, TagNames)
    \/ ScanBegin(ConfsV)
    \/ WalkStep
    \/ ScanInvert
    \/ ScanCollapse
    \/ ScanTrim

SpecVersions == Init /\ [][NextVersions]_vars

\* SpecMerge: histories with branches and merges, with and without the
\* null-merge elision.
ConfsM == ConfsWith({NoBranch}, {NoVersion}, {TRUE}, {TRUE}, BOOLEAN, {{}})

FilesM == {ModernName(<<LetterA>>, UidStr(1))}

NextMerge ==
    \/ GitCommit(MaxCommitsM, TRUE, {"none", "add"}, FilesM)
    \/ GitMerge(MaxCommitsM, FilesM)
    \/ GitTag(MaxTagsM, {V(<<2, 0, 0>>)})
    \/ ScanBegin(ConfsM)
    \/ WalkStep
    \/ ScanInvert
    \/ ScanCollapse
    \/ ScanTrim

SpecMerge == Init /\ [][NextMerge]_vars

\* SpecWalk: the same histories with commits that change no note.  The loop
\* of _topo_traversal runs on until its stack is empty: a walk that can take a
\* step takes it.
NextWalk ==
    \/ GitCommit(MaxCommitsL, TRUE, {"none"}, FilesM)
    \/ GitMerge(MaxCommitsL, {})
    \/ GitTag(MaxTagsL, {V(<<2, 0, 0>>)})
    \/ ScanBegin(ConfsM)
    \/ WalkStep
    \/ ScanInvert
    \/ ScanCollapse
    \/ ScanTrim

SpecWalk == Init /\ [][NextWalk]_vars /\ WF_vars(WalkStep)

\* SpecWorktree: a working copy with staged and unstaged changes to the notes,
\* scanned as the current branch or as a branch given by name.
ConfsW ==
    ConfsWith({NoBranch, "master", "stable/a"}, {NoVersion}, {TRUE}, {TRUE},
              {TRUE}, {{}})

NextWorktree ==
    \/ GitCommit(MaxCommitsW, FALSE, {"none", "add"}, NoteFiles)
    \/ GitTag(MaxTagsM, {V(<<1, 0, 0>>)})
    \/ GitBranch({"stable/a"})
    \/ WorktreeChange(MaxWorktree)
    \/ ScanBegin(ConfsW)
    \/ WalkStep
    \/ ScanInvert
    \/ ScanCollapse
    \/ ScanTrim

SpecWorktree == Init /\ [][NextWorktree]_vars

\* SpecBranch: series branches, on commits of master or with commits of their
\* own and checked out; the current branch scanned with and without
\* stop_at_branch_base.
ConfsB == ConfsWith({NoBranch}, {NoVersion}, {TRUE}, BOOLEAN, {TRUE}, {{}})

FilesB == {ModernName(<<LetterA>>, UidStr(1)), ModernName(<<LetterA>>, UidStr(2))}

TagNamesB == {V(<<1, 0, 0>>), V(<<2, 0, 0>>)}

NextBranch ==
    \/ GitCommit(MaxCommitsB, FALSE, {"none", "add"}, FilesB)
    \/ GitTag(MaxTagsB, TagNamesB)
    \/ GitBranch(BranchNames \ {"master"})
    \/ GitCheckoutNewBranch(MaxCommitsB, BranchNames \ {"master"}, {"none", "add"}, FilesB)
    \/ ScanBegin(ConfsB)
    \/ WalkStep
    \/ ScanInvert
    \/ ScanCollapse
    \/ ScanTrim

SpecBranch == Init /\ [][NextBranch]_vars

\* SpecTwice: histories of two commits with every kind of change and any of
\* the tags, and get_notes_by_version called again on the same repository.
NextTwice ==
    \/ GitCommit(MaxCommitsT, FALSE, AllKinds, NoteFiles)
    \/ GitTag(MaxTagsT, TagNames)
    \/ ScanBegin(Confs)
    \/ WalkStep
    \/ ScanInvert
    \/ ScanCollapse
    \/ ScanTrim
    \/ ScanAgain(MaxScans)

SpecTwice == Init /\ [][NextTwice]_vars

\* SpecTags: tags named "1.0.0", "1.0.0.eol" and "eol" on a history of added
\* notes.
TagNamesG == {V(<<1, 0, 0>>), V(<<1, 0, 0, Eol>>), V(<<Eol>>)}

NextTags ==
    \/ GitCommit(MaxCommitsG, FALSE, {"none", "add"}, FilesV)
    \/ GitTag(MaxTagsG, TagNamesG)
    \/ ScanBegin(Confs)
    \/ WalkStep
    \/ ScanInvert
    \/ ScanCollapse
    \/ ScanTrim

SpecTags == Init /\ [][NextTags]_vars

\* SpecIgnore: the option ignore_notes naming no note, a note by its file
\* name, or a note by its UID.
IgnoresI == {{}} \cup {{f} : f \in FilesV} \cup {{u} : u \in Uids}

ConfsI == ConfsWith({NoBranch}, {NoVersion}, {TRUE}, {TRUE}, {TRUE}, IgnoresI)

NextIgnore ==
    \/ GitCommit(MaxCommitsI, FALSE, {"none", "add"}, FilesV)
    \/ GitTag(MaxTagsI, {V(<<1, 0, 0>>)})
    \/ ScanBegin(ConfsI)
    \/ WalkStep
    \/ ScanInvert
    \/ ScanCollapse
    \/ ScanTrim

SpecIgnore == Init /\ [][NextIgnore]_vars

\* SpecTracker: any add, rename, modify or delete called on one tracker, up to
\* MaxCalls calls.
CallTracker(maxCalls, maxSha) ==
    /\ pc = "build"
    /\ Len(calls) < maxCalls
    /\ \E type \in {"add", "rename", "modify", "delete"}, filename \in NoteFiles,
          sha \in 1..maxSha :
         /\ tracker' = TrackerCall(tracker, type, filename, sha, V(<<1, 0, 0>>))
         /\ calls' = Append(calls, Call(type, filename, sha, V(<<1, 0, 0>>)))
    /\ UNCHANGED <<conf, scan, deleted_bad_uids, todo, emitted, files_and_tags,
                   trimmed, yielded, previous, pc>>
    /\ UNCHANGED repoVars
    /\ UNCHANGED nameVars

NextTracker == CallTracker(MaxCalls, MaxShaK)

SpecTracker == Init /\ [][NextTracker]_vars

\* SpecDefault: a repository whose branch "main" leaves master behind, with a
\* series branch, scanned with the option default_branch set to "main".
ConfsD ==
    {[cf EXCEPT !.default_branch = "main"] :
        cf \in ConfsWith({NoBranch}, {NoVersion}, {TRUE}, {TRUE}, {TRUE}, {{}})}

NextDefault ==
    \/ GitCommit(MaxCommitsD, FALSE, {"none", "add"}, FilesB)
    \/ GitTag(MaxTagsD, TagNamesB)
    \/ GitBranch({"stable/a"})
    \/ GitCheckoutNewBranch(MaxCommitsD, {"main"}, {"none", "add"}, FilesB)
    \/ ScanBegin(ConfsD)
    \/ WalkStep
    \/ ScanInvert
    \/ ScanCollapse
    \/ ScanTrim

SpecDefault == Init /\ [][NextDefault]_vars

\* SpecNames: _get_unique_id called on the path of a note file, for slugs of up
\* to MaxSlugLen characters with a dash anywhere or nowhere.
InitNames ==
    /\ InitScan
    /\ called_on \in NotesN
    /\ returned = <<>>

GetUniqueId ==
    /\ returned = <<>>
    /\ returned' = GetUniqueIdOfPath(PathOf(called_on))
    /\ UNCHANGED <<called_on, pc>>
    /\ UNCHANGED repoVars
    /\ UNCHANGED scanVars

NextNames == GetUniqueId

SpecNames == InitNames /\ [][NextNames]_vars

(***************************************************************************)
(* Loader.parse_note_file, from the value that yaml.safe_load gives.  A    *)
(* YAML value is a record of its type and its items: the items of a list,  *)
(* the (key, value) pairs of a mapping in their order.                     *)
(***************************************************************************)
StrV == [type |-> "str", items |-> <<>>]
IntV == [type |-> "int", items |-> <<>>]
NullV == [type |-> "null", items |-> <<>>]
ListV(items) == [type |-> "list", items |-> items]
DictV(pairs) == [type |-> "dict", items |-> pairs]

prelude_section_name == "prelude"
sections == {"features"}

\* The warnings logged for one section, in order.
SectionWarnings(section_name, section_content) ==
    IF section_name = prelude_section_name
    THEN IF section_content.type # "str" THEN <<"not a single string">> ELSE <<>>
    ELSE (IF section_name \notin sections
          THEN <<"not a recognized section">> ELSE <<>>)
         \o (IF section_content.type = "str" THEN <<>>
             ELSE IF section_content.type # "list"
             THEN <<"not a string or list of strings">>
             ELSE SelectSeq([i \in 1..Len(section_content.items) |->
                                IF section_content.items[i].type # "str"
                                THEN "instead of a string" ELSE ""],
                            LAMBDA w : w # ""))

\* The value stored in cleaned_content for one section.
\* (CleanedSectionWrapAll: the same wrapping the string of the prelude too.)
CleanedSectionWrapAll(section_name, section_content) ==
    IF section_content.type = "str" THEN ListV(<<section_content>>)
    ELSE section_content
CleanedSection(section_name, section_content) ==
    IF section_name # prelude_section_name /\ section_content.type = "str"
    THEN ListV(<<section_content>>)
    ELSE section_content

\* Loader.parse_note_file: the exception raised, the mapping returned and the
\* warnings logged.
parse_note_file(content) ==
    IF content.type # "dict"
    THEN [error |-> "ValueError", cleaned_content |-> NullV,
          warnings |-> <<"not a YAML mapping">>]
    ELSE [error |-> "",
          cleaned_content |->
              DictV([i \in 1..Len(content.items) |->
                       <<content.items[i][1],
                         CleanedSection(content.items[i][1], content.items[i][2])>>]),
          warnings |->
              SeqConcat([i \in 1..Len(content.items) |->
                           SectionWarnings(content.items[i][1], content.items[i][2])])]

\* The contents of the model: lists of up to MaxItems strings and numbers,
\* mappings of up to MaxSections sections, and values that are no mapping.
ItemsP == UNION {[1..n -> {StrV, IntV}] : n \in 0..MaxItems}
ValuesP == {StrV, IntV, NullV, DictV(<<>>)} \cup {ListV(items) : items \in ItemsP}
SectionNamesP == {prelude_section_name, "features", "foobar"}
PairsP ==
    UNION {{ps \in [1..n -> SectionNamesP \X ValuesP] :
               \A i, j \in 1..n : ps[i][1] = ps[j][1] => i = j} : n \in 0..MaxSections}
ContentsP ==
    {DictV(ps) : ps \in PairsP} \cup {StrV, IntV, NullV, ListV(<<StrV>>)}

\* SpecNotes: parse_note_file called on one of the contents.
InitNotes ==
    /\ InitScan
    /\ called_on \in ContentsP
    /\ returned = <<>>

ParseNoteFile ==
    /\ returned = <<>>
    /\ returned' = <<parse_note_file(called_on)>>
    /\ UNCHANGED <<called_on, pc>>
    /\ UNCHANGED repoVars
    /\ UNCHANGED scanVars

NextNotes == ParseNoteFile

SpecNotes == InitNotes /\ [][NextNotes]_vars

\* SpecAggregate: one _ChangeAggregator called on its own, as its tests call
\* it, with the changes of one commit after another; the entries are those of
\* two files that share a UID, given one by one or as the nested list of a
\* merge.  called_on holds the lists given so far and returned the outcomes;
\* an outcome with an error is the exception that ends the scan.
FilesA == {ModernName(sl, UidStr(1)) : sl \in Slugs}
EntriesA == [type : {"add", "delete", "modify"}, path : FilesA]
EntryListsA == UNION {[1..n -> EntriesA] : n \in 1..MaxEntries}
ChangesA ==
    {[i \in 1..Len(es) |-> <<es[i]>>] : es \in EntryListsA}
        \cup {<<es>> : es \in EntryListsA}

InitAggregate ==
    /\ InitScan
    /\ called_on = <<>>
    /\ returned = <<>>

AggregateChanges(maxCalls) ==
    /\ pc = "build"
    /\ Len(called_on) < maxCalls
    /\ \A k \in 1..Len(returned) : returned[k].error = ""
    /\ \E changes \in ChangesA :
         LET r == aggregate_changes(deleted_bad_uids, 1, changes)
         IN  /\ called_on' = Append(called_on, changes)
             /\ returned' = Append(returned, r)
             /\ deleted_bad_uids' = r.bad
    /\ UNCHANGED <<conf, scan, tracker, todo, emitted, files_and_tags, trimmed,
                   calls, yielded, previous, pc>>
    /\ UNCHANGED repoVars

NextAggregate == AggregateChanges(MaxCallsA)

SpecAggregate == InitAggregate /\ [][NextAggregate]_vars

\* SpecStop: _find_scan_stop_point called on its own, as its tests call it,
\* on a repository with series branches: any earliest version, any list of
\* versions without a version twice, either setting of the collapsing and any
\* branch.  The versions are final versions and pre-releases of three and of
\* four parts ("1.0.0rc1", "1.0.0b1", "1.0.0.0rc1").
VersionsS ==
    {V(<<2, 0, 0>>), V(<<1, 0, 0>>), V(<<1, 0, 0, PreRc>>), V(<<1, 0, PreRc>>),
     V(<<1, 0, PreB>>)}
VersionListsS ==
    {vs \in UNION {[1..n -> VersionsS] : n \in 0..MaxVersions} :
        \A i, j \in 1..Len(vs) : vs[i] = vs[j] => i = j}

FindScanStopPoint ==
    /\ pc = "build"
    /\ \E earliest_version \in VersionsS \cup {NoVersion},
          versions_by_date \in VersionListsS,
          collapse_pre_releases \in BOOLEAN,
          branch \in {NoBranch, "feature"} \cup BranchNames :
         /\ called_on' = [earliest_version |-> earliest_version,
                          versions_by_date |-> versions_by_date,
                          collapse_pre_releases |-> collapse_pre_releases,
                          branch |-> branch]
         /\ returned' = <<find_scan_stop_point(earliest_version, versions_by_date,
                                               collapse_pre_releases, branch)>>
    /\ pc' = "done"
    /\ UNCHANGED repoVars
    /\ UNCHANGED scanVars

NextStop ==
    \/ GitCommit(MaxCommitsS, FALSE, {"none"}, {})
    \/ GitTag(MaxTagsS, {V(<<1, 0, 0>>)})
    \/ GitBranch(BranchNames \ {"master"})
    \/ FindScanStopPoint

SpecStop == Init /\ [][NextStop]_vars

\* SpecBase: _get_branch_base called on its own, as its tests call it, for a
\* branch of a repository where master is checked out, or where a branch is
\* checked out and has commits of its own.
GetBranchBase ==
    /\ pc = "build"
    /\ \E branch \in DOMAIN refs \ {"master"} :
         /\ called_on' = branch
         /\ returned' = <<get_branch_base(branch)>>
    /\ pc' = "done"
    /\ UNCHANGED repoVars
    /\ UNCHANGED scanVars

NextBase ==
    \/ GitCommit(MaxCommitsR, FALSE, {"none"}, {})
    \/ GitTag(MaxTagsR, TagNamesB)
    \/ GitBranch(BranchNames \ {"master"})
    \/ GitCheckoutNewBranch(MaxCommitsR, BranchNames \ {"master"}, {"none"}, {})
    \/ GetBranchBase

SpecBase == Init /\ [][NextBase]_vars

(***************************************************************************)
(* What the claims speak of, stated on the repository and on the result,   *)
(* apart from the scanner's own operators.                                 *)
(***************************************************************************)
\* The UID of a note file of the model: the part after its slug.
NoteUid(path) == CHOOSE u \in Uids : \E s \in Slugs : path = ModernName(s, u)

\* The places <<bucket, index>> of the result and the entry at each.
Places(od) ==
    UNION {{<<i, j>> : j \in 1..Len(od[i][2])} : i \in 1..Len(od)}
EntryAt(od, pl) == od[pl[1]][2][pl[2]]
VersionAt(od, pl) == od[pl[1]][1]
UidsIn(od) == {NoteUid(EntryAt(od, pl)[1]) : pl \in Places(od)}
KeysOf(od) == {od[i][1] : i \in 1..Len(od)}

\* A commit changes a path when its tree differs there from the tree of every
\* parent (from the empty tree for a root commit).
Touched(c, p) ==
    IF Parents(c) = <<>> THEN Tree(c)[p] # NoSha
    ELSE \A i \in 1..Len(Parents(c)) : Tree(c)[p] # Tree(Parents(c)[i])[p]
Touches(c, uid) == \E p \in NoteFiles : NoteUid(p) = uid /\ Touched(c, p)
Touchers(uid) == {c \in CommitIds : Touches(c, uid)}
Oldest(S) == CHOOSE c \in S : \A d \in S : c <= d
Newest(S) == CHOOSE c \in S : \A d \in S : c >= d

\* Every file of the UID that the commit changes is removed by it.
PlainDelete(c, uid) ==
    /\ Touches(c, uid)
    /\ \A p \in NoteFiles : NoteUid(p) = uid /\ Touched(c, p) => Tree(c)[p] = NoSha

\* The newest of the version tags on a commit.
TaggedCommits == {tags[i].commit : i \in 1..Len(tags)}
NewestTagOn(c) ==
    LET on == {i \in 1..Len(tags) : tags[i].commit = c}
    IN  tags[CHOOSE i \in on : \A j \in on : j <= i].name

\* In a history without merges: the version of the nearest tagged commit at
\* or after c, or the version of the head when there is none.
VersionInEffect(c) ==
    LET later == {d \in TaggedCommits : d >= c}
    IN  IF later = {} THEN get_current_version(HeadCommit)
        ELSE NewestTagOn(Oldest(later))

\* C1: after a scan, no two entries of the result, in whatever buckets, are
\* files of the same UID.
C1_OneEntryPerUid ==
    pc = "done" =>
        \A a, b \in Places(trimmed) :
            NoteUid(EntryAt(trimmed, a)[1]) = NoteUid(EntryAt(trimmed, b)[1])
                => a = b

\* A scan ended with a UID in the result that three commits changed.
C1_Witness ==
    /\ pc = "done"
    /\ \E uid \in UidsIn(trimmed) : Cardinality(Touchers(uid)) >= 3

\* C2: a UID whose newest change in the scanned history is a plain delete is
\* not in the result, whatever older commits did to it.
C2_DeletedAbsent ==
    pc = "done" =>
        \A uid \in Uids :
            (Touchers(uid) # {} /\ PlainDelete(Newest(Touchers(uid)), uid))
                => uid \notin UidsIn(trimmed)

\* A scan ended over a history that adds a note, changes it and then deletes
\* it, next to a note that stays.
C2_Witness ==
    /\ pc = "done"
    /\ trimmed # <<>>
    /\ \E uid \in Uids :
         /\ Cardinality(Touchers(uid)) >= 2
         /\ PlainDelete(Newest(Touchers(uid)), uid)

\* C3: before the pre-releases are collapsed, each UID is listed under the
\* version in effect at the oldest commit of the scanned history that changes
\* it.
C3_VersionOfOldestChange ==
    pc = "collapse" =>
        \A pl \in Places(files_and_tags) :
            VersionAt(files_and_tags, pl) =
                VersionInEffect(Oldest(Touchers(
                    NoteUid(EntryAt(files_and_tags, pl)[1]))))

\* A note listed under an older version than the one in effect at the newest
\* commit that changes it.
C3_Witness ==
    /\ pc = "collapse"
    /\ \E pl \in Places(files_and_tags) :
         LET uid == NoteUid(EntryAt(files_and_tags, pl)[1])
         IN  /\ Cardinality(Touchers(uid)) >= 2
             /\ VersionAt(files_and_tags, pl) # VersionInEffect(Newest(Touchers(uid)))

\* The commits from c back along first parents, c first.
RECURSIVE FirstParentChain(_)
FirstParentChain(c) ==
    IF Parents(c) = <<>> THEN <<c>>
    ELSE <<c>> \o FirstParentChain(Parents(c)[1])

\* What git describe --first-parent says of the head: the newest tag of the
\* nearest tagged commit of the chain, with the number of steps to it.
DescribedVersion ==
    LET chain == FirstParentChain(HeadCommit)
        tagged == {i \in 1..Len(chain) : chain[i] \in TaggedCommits}
    IN  IF tagged = {} THEN ZeroVersion
        ELSE LET i == CHOOSE k \in tagged : \A j \in tagged : k <= j
             IN  IF i = 1 THEN NewestTagOn(chain[i])
                 ELSE [comps |-> NewestTagOn(chain[i]).comps, dev |-> <<i - 1>>]

\* C10: the current version a scan starts from is the tag found by following
\* first parents from the head, alone when the head is tagged, with the count
\* of steps when it is further back, and 0.0.0 when the chain has no tag.
C10_CurrentVersionFirstParent ==
    (pc = "walk" /\ emitted = {}) => scan.current_version = DescribedVersion

\* A scan starts at a merge whose tagged ancestor is three steps back along
\* first parents and two steps back along the second parent.
C10_Witness ==
    /\ pc = "walk" /\ emitted = {}
    /\ Len(Parents(HeadCommit)) = 2
    /\ Parents(Parents(HeadCommit)[2])[1] \in TaggedCommits
    /\ scan.current_version = [comps |-> <<2, 0, 0>>, dev |-> <<3>>]

\* The commits reachable from c when, at the merge m, only the first parent is
\* followed; the side of m is what the scanned branch reaches through the
\* other parents of m and in no other way.
RECURSIVE ReachSkipping(_, _)
ReachSkipping(c, m) ==
    {c} \cup UNION {ReachSkipping(q, m) :
                      q \in IF c = m THEN {Parents(c)[1]} ELSE Range(Parents(c))}
SideOf(m) == Reach(HeadCommit) \ ReachSkipping(HeadCommit, m)

Merges == {m \in Reach(HeadCommit) : Len(Parents(m)) >= 2}
ChangesNothing(m) == \A p \in NoteFiles : ~Touched(m, p)
TagsOnSide(m) == {tags[i].name : i \in {j \in 1..Len(tags) : tags[j].commit \in SideOf(m)}}
\* The merges the claim C5 speaks of.
TaggedNullMerges ==
    {m \in Merges : /\ ChangesNothing(m)
                    /\ \E i \in 2..Len(Parents(m)) : Parents(m)[i] \in TaggedCommits}

\* The notes of the side of m: the UIDs that only commits of the side with one
\* parent change.
UidsOnlyOnSide(m) ==
    {uid \in Uids : /\ Touchers(uid) # {}
                    /\ Touchers(uid) \subseteq SideOf(m) \ Merges}
ListedUnder(od, uid, version) ==
    \E pl \in Places(od) : /\ NoteUid(EntryAt(od, pl)[1]) = uid
                           /\ VersionAt(od, pl) = version

\* C5: with ignore_null_merges on, the tags and the notes of the side of a
\* merge that changes nothing and has a tagged non-first parent are not in the
\* result; with the option off the notes of that side are in the result, those
\* of the tagged parent under its tag.
C5_NullMergeSide ==
    pc = "done" =>
        \A m \in TaggedNullMerges :
            IF conf.ignore_null_merges
            THEN /\ TagsOnSide(m) \cap KeysOf(trimmed) = {}
                 /\ UidsOnlyOnSide(m) \cap UidsIn(trimmed) = {}
            ELSE /\ UidsOnlyOnSide(m) \subseteq UidsIn(trimmed)
                 /\ \A i \in 2..Len(Parents(m)) :
                      \A uid \in UidsOnlyOnSide(m) :
                         (Parents(m)[i] \in TaggedCommits
                             /\ Touchers(uid) = {Parents(m)[i]})
                         => ListedUnder(trimmed, uid, NewestTagOn(Parents(m)[i]))

\* A scan ended, with the option on, over a branch with a null merge whose
\* tagged second parent added a note that no other commit changes.
C5_Witness ==
    /\ pc = "done"
    /\ conf.ignore_null_merges
    /\ \E m \in TaggedNullMerges :
         \E uid \in UidsOnlyOnSide(m) : Touchers(uid) = {Parents(m)[2]}

\* The side of m is a line of untagged commits.
LinearUntaggedSide(m) ==
    /\ SideOf(m) # {}
    /\ SideOf(m) \cap TaggedCommits = {}
    /\ \A c \in SideOf(m) : Len(Parents(c)) = 1

\* The tags on m and on the commits that have m in their history.
TagsAtOrAfter(m) ==
    {tags[i].name : i \in {j \in 1..Len(tags) : m \in Reach(tags[j].commit)}}

\* The versions the walk had as current when it emitted m.
VersionsWhenEmitted(m) ==
    {yielded[i].version : i \in {j \in 1..Len(yielded) : yielded[j].commit = m}}

\* C6 as stated: a note of an untagged side branch that a merge on the first-
\* parent chain of the head brings in is listed under a tag at or after the
\* merge, or under the current version of the branch.
C6_TagAtOrAfterMerge ==
    pc = "collapse" =>
        \A m \in Merges :
            (m \in Range(FirstParentChain(HeadCommit)) /\ LinearUntaggedSide(m)) =>
                \A uid \in UidsOnlyOnSide(m) :
                    \A pl \in Places(files_and_tags) :
                        NoteUid(EntryAt(files_and_tags, pl)[1]) = uid =>
                            VersionAt(files_and_tags, pl) \in
                                TagsAtOrAfter(m) \cup {DescribedVersion}

\* C6, amended: a note of an untagged side branch without merges of its own is
\* listed under the version that was current in the walk when the walk emitted
\* the merge that brings the branch in.
C6_VersionWhenMergeEmitted ==
    pc = "collapse" =>
        \A m \in Merges :
            LinearUntaggedSide(m) =>
                \A uid \in UidsOnlyOnSide(m) :
                    \A pl \in Places(files_and_tags) :
                        NoteUid(EntryAt(files_and_tags, pl)[1]) = uid =>
                            VersionAt(files_and_tags, pl) \in VersionsWhenEmitted(m)

\* A note of an untagged side branch listed under the tag of another branch,
\* a tag that is not on a commit at or after the merge.
C6_Witness ==
    /\ pc = "collapse"
    /\ \E m \in Merges :
         /\ m \in Range(FirstParentChain(HeadCommit))
         /\ LinearUntaggedSide(m)
         /\ \E uid \in UidsOnlyOnSide(m) :
              \E pl \in Places(files_and_tags) :
                 /\ NoteUid(EntryAt(files_and_tags, pl)[1]) = uid
                 /\ VersionAt(files_and_tags, pl) \in
                        {tags[i].name : i \in 1..Len(tags)} \ TagsAtOrAfter(m)

\* A pre-release version and the version it is a pre-release of.
IsPreRelease(v) ==
    v.dev = <<>> /\ Len(v.comps) > 1 /\ v.comps[Len(v.comps)] = PreRc
FinalOf(v) == V(SubSeq(v.comps, 1, Len(v.comps) - 1))

\* What the walk attributed to a version: the file, with its commit, of each
\* UID of the tracker whose version it is and that has a file.
AttributedTo(v) ==
    {tracker.last_name_by_id[tracker.earliest_seen[i][1]] :
        i \in {j \in 1..Len(tracker.earliest_seen) :
                 /\ tracker.earliest_seen[j][2] = v
                 /\ tracker.earliest_seen[j][1] \in DOMAIN tracker.last_name_by_id}}
EntriesUnder(od, v) ==
    {EntryAt(od, pl) : pl \in {q \in Places(od) : VersionAt(od, q) = v}}

\* The result ends at earliest_version, before it comes to v.
CutBefore(v) ==
    /\ conf.earliest_version # NoVersion
    /\ conf.earliest_version \in KeysOf(trimmed)
    /\ IndexOf(scan.versions_by_date, conf.earliest_version)
           < IndexOf(scan.versions_by_date, v)

PreReleasesOnBranch ==
    {v \in Range(scan.versions_by_date) : IsPreRelease(v)}

\* C4 as stated: with collapse_pre_releases on, the notes of a pre-release
\* whose final version is tagged are listed under the final version and the
\* pre-release is no key of the result; the notes of a pre-release whose final
\* version is not tagged are listed under the pre-release.
C4_CollapsedUnderFinal ==
    (pc = "done" /\ conf.collapse_pre_releases) =>
        \A v \in PreReleasesOnBranch :
            IF Contains(scan.versions_by_date, FinalOf(v))
            THEN /\ v \notin KeysOf(trimmed)
                 /\ AttributedTo(v) \subseteq EntriesUnder(trimmed, FinalOf(v))
            ELSE AttributedTo(v) \subseteq EntriesUnder(trimmed, v)

\* C4, amended: the same, except where the result ends at earliest_version
\* before it comes to the version the notes would be listed under.
C4_CollapsedUnlessCut ==
    (pc = "done" /\ conf.collapse_pre_releases) =>
        \A v \in PreReleasesOnBranch :
            IF Contains(scan.versions_by_date, FinalOf(v))
            THEN /\ v \notin KeysOf(trimmed)
                 /\ \/ AttributedTo(v) \subseteq EntriesUnder(trimmed, FinalOf(v))
                    \/ CutBefore(FinalOf(v))
            ELSE \/ AttributedTo(v) \subseteq EntriesUnder(trimmed, v)
                 \/ CutBefore(v)

\* A scan with an earliest_version listed the note of a pre-release under the
\* final version, next to a note of the final version itself.
C4_Witness ==
    /\ pc = "done" /\ conf.collapse_pre_releases
    /\ conf.earliest_version # NoVersion
    /\ \E v \in PreReleasesOnBranch :
         /\ AttributedTo(v) # {}
         /\ AttributedTo(FinalOf(v)) # {}
         /\ AttributedTo(v) \subseteq EntriesUnder(trimmed, FinalOf(v))

\* The date of a tag is its place in the order the tags were made.
IsTagName(v) == \E i \in 1..Len(tags) : tags[i].name = v
DateOfTag(v) == CHOOSE i \in 1..Len(tags) : tags[i].name = v

\* C7 as stated: the versions of the result are the working copy, then the
\* current version when it is no tag, then the tags from the newest tag date
\* to the oldest.
C7_NewestTagFirst ==
    pc = "done" =>
        \A i, j \in 1..Len(trimmed) :
            i < j =>
                LET a == trimmed[i][1]
                    b == trimmed[j][1]
                IN  /\ b # WorkingCopy
                    /\ ~IsTagName(b) => a = WorkingCopy
                    /\ (IsTagName(a) /\ IsTagName(b)) => DateOfTag(a) > DateOfTag(b)

\* C8 as stated: in each version of the result the notes are in ascending
\* order of UID.
C8_NotesByUid ==
    pc = "done" =>
        \A a, b \in Places(trimmed) :
            (a[1] = b[1] /\ a[2] < b[2]) =>
                StrLess(NoteUid(EntryAt(trimmed, a)[1]),
                        NoteUid(EntryAt(trimmed, b)[1]))

\* C9 as stated: with earliest_version configured, no version that comes
\* after it in versions_by_date is a key of the result.
C9_NothingOlderThanEarliest ==
    (pc = "done" /\ conf.earliest_version # NoVersion) =>
        \A v \in KeysOf(trimmed) :
            IndexOf(scan.versions_by_date, v)
                <= IndexOf(scan.versions_by_date, conf.earliest_version)

RenamedAcrossTags ==
    LET a == ModernName(<<LetterA>>, UidStr(1))
        b == ModernName(<<LetterA + 1>>, UidStr(1))
    IN  /\ NumCommits = 2
        /\ Parents(1) = <<>> /\ Parents(2) = <<1>>
        /\ Tree(1) = [EmptyTree EXCEPT ![a] = 1]
        /\ Tree(2) = [EmptyTree EXCEPT ![b] = 1]
        /\ tags = <<[name |-> V(<<1, 0, 0>>), commit |-> 1],
                    [name |-> V(<<2, 0, 0>>), commit |-> 2]>>

\* C13 as stated: the result of the scenario is the note under its new name,
\* listed under 2.0.0, and nothing else.
C13_RenamedUnderNewTag ==
    (pc = "done" /\ RenamedAcrossTags) =>
        trimmed = <<<<V(<<2, 0, 0>>),
                      <<<<ModernName(<<LetterA + 1>>, UidStr(1)), 2>>>>>>>>

\* C13, amended: the result of the scenario is the note under its new name,
\* with the commit that renamed it, listed under 1.0.0, and nothing else.
C13_RenamedUnderFirstTag ==
    (pc = "done" /\ RenamedAcrossTags) =>
        trimmed = <<<<V(<<1, 0, 0>>),
                      <<<<ModernName(<<LetterA + 1>>, UidStr(1)), 2>>>>>>>>

\* A scan of the scenario has ended.
C13_Witness ==
    pc = "done" /\ RenamedAcrossTags /\ trimmed # <<>>

\* The UIDs of the notes staged as new files that no commit of the repository
\* changes.
StagedNewUids ==
    {NoteUid(w.path) : w \in {x \in worktree : x.kind = "staged_add"}}
        \ {uid \in Uids : Touchers(uid) # {}}

\* C14: with a branch given, no change of the index or the working copy
\* reaches the tracker and the result has no version '*working-copy*';
\* without one, a note staged as a new file is listed under '*working-copy*',
\* under the name of a staged file and with no commit id.
C14_WorkingCopyOnlyWithoutBranch ==
    /\ (pc \in {"walk", "invert", "collapse", "trim", "done"}
            /\ conf.branch # NoBranch) =>
           \A i \in 1..Len(calls) :
               calls[i].sha # NoSha /\ calls[i].version # WorkingCopy
    /\ (pc = "done" /\ conf.branch # NoBranch) =>
           WorkingCopy \notin KeysOf(trimmed)
    /\ (pc = "done" /\ conf.branch = NoBranch) =>
           \A uid \in StagedNewUids :
               \E pl \in Places(trimmed) :
                   /\ VersionAt(trimmed, pl) = WorkingCopy
                   /\ NoteUid(EntryAt(trimmed, pl)[1]) = uid
                   /\ EntryAt(trimmed, pl)[2] = NoSha
                   /\ [kind |-> "staged_add", path |-> EntryAt(trimmed, pl)[1]]
                          \in worktree

\* A scan of a branch given by name has ended with a result, in a repository
\* where a new note is staged.
C14_Witness ==
    /\ pc = "done"
    /\ conf.branch # NoBranch
    /\ StagedNewUids # {}
    /\ trimmed # <<>>

\* The one entry of the result for the UID is the file, without a commit id,
\* listed under the version in effect at the oldest commit that changes the
\* UID.
ListedOnceFromWorkingCopy(uid, path) ==
    /\ \A a, b \in Places(trimmed) :
           (NoteUid(EntryAt(trimmed, a)[1]) = uid
               /\ NoteUid(EntryAt(trimmed, b)[1]) = uid) => a = b
    /\ \E pl \in Places(trimmed) :
           /\ EntryAt(trimmed, pl) = <<path, NoSha>>
           /\ VersionAt(trimmed, pl) # WorkingCopy
           /\ VersionAt(trimmed, pl) = VersionInEffect(Oldest(Touchers(uid)))

\* C15: in a scan of the current branch, a committed note with changes that
\* are not staged (and no other change of the working copy to its UID) is in
\* the result once, with no commit id, under the version of its oldest
\* committed change and not under the working copy.
C15_UnstagedModifiedOnce ==
    (pc = "done" /\ conf.branch = NoBranch) =>
        \A w \in worktree :
            (w.kind = "unstaged_present"
                /\ \A x \in worktree \ {w} : NoteUid(x.path) # NoteUid(w.path)) =>
                ListedOnceFromWorkingCopy(NoteUid(w.path), w.path)

\* The commit at the base of a series branch: the newest commit of the branch
\* that is a commit of master too.
BaseCommit(b) == Newest(Reach(GetRef(b)) \cap Reach(GetRef("master")))

\* The series branches whose base commit is a commit of the current branch
\* with a version tag on it, as positions in the list of names.
Qualifying ==
    {i \in 1..Len(SeriesNames) :
        /\ SeriesNames[i] \in DOMAIN refs
        /\ BaseCommit(SeriesNames[i]) \in TaggedCommits \cap Reach(HeadCommit)}

\* The commit the walk is to stop at, and the tag on it.
StopCommit == BaseCommit(SeriesNames[CHOOSE i \in Qualifying : \A j \in Qualifying : j <= i])
StopTag == NewestTagOn(StopCommit)

\* The tags older than the tag the walk stops at: those on the commits before
\* its commit and the earlier tags on its commit.
OlderThanStop ==
    {tags[i].name : i \in {j \in 1..Len(tags) :
        \/ tags[j].commit \in Reach(StopCommit) \ {StopCommit}
        \/ tags[j].commit = StopCommit /\ j < DateOfTag(StopTag)}}

WalkedCommits == {yielded[i].commit : i \in 1..Len(yielded)}

\* C16: the current branch scanned without earliest_version.  With
\* stop_at_branch_base on and a series branch whose base carries a version tag
\* of the branch, the walk ends at the commit of that tag, for the last such
\* branch in name order, and no older version is in the result; without such a
\* branch, or with the option off, every commit of the branch is walked.
C16_StopAtBranchBase ==
    (pc = "done" /\ conf.branch = NoBranch /\ conf.earliest_version = NoVersion) =>
        IF conf.stop_at_branch_base /\ Qualifying # {}
        THEN /\ yielded[Len(yielded)].commit = StopCommit
             /\ \A i \in 1..(Len(yielded) - 1) : yielded[i].commit # StopCommit
             /\ WalkedCommits \cap Reach(StopCommit) = {StopCommit}
             /\ KeysOf(trimmed) \cap OlderThanStop = {}
        ELSE WalkedCommits = Reach(HeadCommit)

\* A scan has stopped at the base of stable/b, which is older than the base
\* of stable/a, and has left the commits before it unwalked.
C16_Witness ==
    /\ pc = "done" /\ conf.branch = NoBranch /\ conf.stop_at_branch_base
    /\ Qualifying = {1, 2}
    /\ BaseCommit("stable/b") < BaseCommit("stable/a")
    /\ yielded[Len(yielded)].commit = BaseCommit("stable/b")
    /\ WalkedCommits # Reach(HeadCommit)
    /\ trimmed # <<>>

\* C17: for a slug and a UID of 16 characters without a dash, _get_unique_id
\* returns the UID for the file named <slug>-<uid>.yaml and for the file
\* named <uid>-<slug>.yaml, in whatever directory.
C17_UidOfEitherForm == returned # <<>> => returned = called_on.uid

\* The whole name of the tag is made of what release_tag_re matches: digits,
\* '.', 'a', 'b', 'v' and "rc".
MatchesWhole(tag) ==
    /\ tag.comps # <<>>
    /\ tag.dev = <<>>
    /\ \A i \in 1..Len(tag.comps) : tag.comps[i] >= 0 \/ tag.comps[i] = PreRc

\* C18: a tag is taken for a version only when release_tag_re matches its
\* whole name: neither the versions of the branch nor the versions of the
\* result have a tag that the pattern matches only at its start.
C18_VersionTagsMatchWhole ==
    /\ \A i \in 1..Len(scan.versions_by_date) :
          IsTagName(scan.versions_by_date[i]) => MatchesWhole(scan.versions_by_date[i])
    /\ \A v \in KeysOf(trimmed) : IsTagName(v) => MatchesWhole(v)

\* The version tags on the commits of the branch scanned.
VersionTagsOnBranch ==
    {tags[i].name : i \in {j \in 1..Len(tags) :
        /\ tags[j].commit \in Reach(GetRef(conf.branch))
        /\ release_tag_re_match(tags[j].name)}}

\* C19: a scan with an earliest_version that is no version tag of the branch
\* ends with the error of the unknown earliest version, with no commit walked,
\* no change given to the tracker and no result.
C19_UnknownEarliestFails ==
    (pc # "build" /\ conf.earliest_version # NoVersion
        /\ conf.earliest_version \notin VersionTagsOnBranch) =>
        /\ pc = "error"
        /\ scan.error = "UnknownEarliestVersion"
        /\ yielded = <<>> /\ emitted = {} /\ calls = <<>>
        /\ files_and_tags = <<>> /\ trimmed = <<>>

\* A scan has failed on an earliest_version that is not among the two tags of
\* a branch whose head has a note.
C19_Witness ==
    /\ pc = "error" /\ scan.error = "UnknownEarliestVersion"
    /\ conf.earliest_version \notin VersionTagsOnBranch
    /\ Cardinality(VersionTagsOnBranch) = 2
    /\ Present(Tree(HeadCommit)) # {}

\* C20: no entry of the result is a note that ignore_notes names, by its file
\* name or by its UID.
C20_IgnoredNotesAbsent ==
    pc = "done" =>
        \A pl \in Places(trimmed) :
            /\ EntryAt(trimmed, pl)[1] \notin conf.ignore_notes
            /\ NoteUid(EntryAt(trimmed, pl)[1]) \notin conf.ignore_notes

\* The commit at the base of a series branch, as the newest commit of the
\* branch that is a commit of the branch d too.
BaseCommitOn(b, d) == Newest(Reach(GetRef(b)) \cap Reach(GetRef(d)))

\* The series branches whose base on the branch d is a commit of the current
\* branch with a version tag on it, as positions in the list of names.
QualifyingOn(d) ==
    {i \in 1..Len(SeriesNames) :
        /\ SeriesNames[i] \in DOMAIN refs
        /\ BaseCommitOn(SeriesNames[i], d) \in TaggedCommits \cap Reach(HeadCommit)}

\* C21: the base of a series branch is looked for among the commits of the
\* branch that default_branch names: a scan of the current branch stops at the
\* tag at the base, on that branch, of the last series branch that has one,
\* and has no stop tag when there is none.
C21_BaseOnDefaultBranch ==
    (pc \in {"walk", "done"} /\ conf.branch = NoBranch
        /\ conf.earliest_version = NoVersion /\ conf.stop_at_branch_base
        /\ conf.default_branch \in DOMAIN refs) =>
        LET q == QualifyingOn(conf.default_branch)
        IN  scan.scan_stop_tag =
                IF q = {} THEN NoVersion
                ELSE NewestTagOn(BaseCommitOn(
                         SeriesNames[CHOOSE i \in q : \A j \in q : j <= i],
                         conf.default_branch))

\* A value that parse_note_file warns about: the prelude when it is no
\* string, a section it does not know, a section that is neither a string nor
\* a list, a list with an item that is no string.
WarnedAbout(key, value) ==
    IF key = prelude_section_name THEN value.type # "str"
    ELSE \/ key \notin sections
         \/ value.type \notin {"str", "list"}
         \/ value.type = "list" /\ \E i \in 1..Len(value.items) : value.items[i].type # "str"

\* C22: parse_note_file fails exactly when the content is no mapping; for a
\* mapping it returns a mapping with the same keys, where a string under a
\* key other than the prelude is a list of that one string and every other
\* value is the value given; it warns exactly when a value is one it warns
\* about.
C22_ParseNoteFile ==
    returned # <<>> =>
        LET out == returned[1]
            given == called_on.items
            got == out.cleaned_content.items
        IN  IF called_on.type # "dict" THEN out.error = "ValueError"
            ELSE /\ out.error = ""
                 /\ out.cleaned_content.type = "dict"
                 /\ Len(got) = Len(given)
                 /\ \A i \in 1..Len(given) :
                       /\ got[i][1] = given[i][1]
                       /\ got[i][2] =
                            IF given[i][1] # prelude_section_name /\ given[i][2] = StrV
                            THEN ListV(<<StrV>>)
                            ELSE given[i][2]
                 /\ (out.warnings # <<>>) <=>
                        \E i \in 1..Len(given) : WarnedAbout(given[i][1], given[i][2])

\* parse_note_file has returned a mapping with the string of the prelude as
\* it was and the string of another section in a list.
C22_Witness ==
    /\ returned # <<>>
    /\ called_on.type = "dict"
    /\ \E i, j \in 1..Len(called_on.items) :
         /\ called_on.items[i] = <<prelude_section_name, StrV>>
         /\ called_on.items[j] = <<"features", StrV>>
         /\ returned[1].cleaned_content.items[i][2] = StrV
         /\ returned[1].cleaned_content.items[j][2] = ListV(<<StrV>>)
    /\ returned[1].warnings = <<>>

\* The first call made on the tracker for a file of the UID.
CallsFor(uid) == {i \in 1..Len(calls) : NoteUid(calls[i].filename) = uid}
FirstCallFor(uid) == calls[CHOOSE i \in CallsFor(uid) : \A j \in CallsFor(uid) : i <= j]

\* C23: after any calls of add, rename, modify and delete, the tracker has a
\* (path, commit id) for a UID exactly when the first call for the UID was no
\* delete, and it is the path and the commit id of that call; the UID is in
\* the deleted set exactly when the first call for it was a delete.
C23_FirstCallDecides ==
    \A uid \in Uids :
        LET called == CallsFor(uid) # {}
        IN  /\ uid \in DOMAIN tracker.last_name_by_id
                <=> (called /\ FirstCallFor(uid).type # "delete")
            /\ uid \in DOMAIN tracker.last_name_by_id =>
                  tracker.last_name_by_id[uid] =
                      <<FirstCallFor(uid).filename, FirstCallFor(uid).sha>>
            /\ uid \in tracker.uniqueids_deleted
                <=> (called /\ FirstCallFor(uid).type = "delete")

\* Three calls for one UID: a modify, then a rename to another name at another
\* commit, then a delete; the record is still the one of the modify.
C23_Witness ==
    /\ Len(calls) = 3
    /\ \E uid \in Uids :
         /\ CallsFor(uid) = {1, 2, 3}
         /\ calls[1].type = "modify" /\ calls[2].type = "rename"
         /\ calls[3].type = "delete"
         /\ calls[2].filename # calls[1].filename /\ calls[2].sha # calls[1].sha
         /\ tracker.last_name_by_id[uid] = <<calls[1].filename, calls[1].sha>>

\* The children of a commit among the commits reachable from the head of the
\* branch scanned that are neither emitted nor marked as emitted.
WaitingChildren(c) ==
    (Children(c) \cap Reach(GetRef(conf.branch))) \ emitted

\* C24: a step of the walker that emits a commit finds no child of it
\* waiting; a step that pops a commit with a child waiting emits nothing and
\* leaves the commit off the stack, and pushes nothing unless the commit is a
\* null merge that is elided.
C24_EmitAfterChildren ==
    [][(pc = "walk" /\ todo # <<>>) =>
         /\ yielded' # yielded => WaitingChildren(Head(todo)) = {}
         /\ WaitingChildren(Head(todo)) # {} =>
               /\ yielded' = yielded
               /\ ~Contains(todo', Head(todo))
               /\ ~IsNullMerge(Head(todo)) =>
                     (todo' = Tail(todo) /\ emitted' = emitted)]_vars

\* A commit with an emitted child and a waiting child has been popped and
\* deferred: it is neither emitted nor on the stack.
C24_Witness ==
    /\ pc = "walk"
    /\ \E c \in Reach(HeadCommit) :
         /\ c \notin emitted
         /\ ~Contains(todo, c)
         /\ WaitingChildren(c) # {}
         /\ \E d \in Children(c) : d \in WalkedCommits

\* The commits reachable from a merge only through its parents other than the
\* first, and the place of a commit in the order of emission.
SideOnly(m) == Reach(m) \ ({m} \cup Reach(Parents(m)[1]))
EmittedBefore(a, b) ==
    \A i, j \in 1..Len(yielded) :
        (yielded[i].commit = a /\ yielded[j].commit = b) => i < j
WalkOver == pc \in {"invert", "collapse", "trim", "done"}
WalkedMerges == {m \in WalkedCommits : Len(Parents(m)) >= 2}
ElidedMerges == {m \in Reach(GetRef(conf.branch)) : IsNullMerge(m)}

\* C25 as stated: the commits reachable from an emitted merge only through its
\* second and later parents are emitted before the merge, and the merge before
\* its first parent.
C25_SideThenMerge ==
    WalkOver =>
        \A m \in WalkedMerges :
            /\ \A c \in SideOnly(m) \cap WalkedCommits : EmittedBefore(c, m)
            /\ EmittedBefore(m, Parents(m)[1])

\* C25 amended: when no merge of the branch is elided as a null merge, a merge
\* is emitted before every other commit reachable from it, those reachable
\* only through its second and later parents and its first parent alike.
C25_MergeThenParents ==
    \A m \in WalkedMerges :
        ElidedMerges = {} =>
            \A c \in Reach(m) \ {m} : EmittedBefore(m, c)

C25_Witness ==
    /\ WalkOver
    /\ ElidedMerges = {}
    /\ \E m \in WalkedMerges :
         /\ SideOnly(m) \cap WalkedCommits # {}
         /\ Parents(m)[1] \in WalkedCommits
         /\ \A c \in SideOnly(m) : EmittedBefore(m, c)

\* C26: for every merge the walk emits, the commits reachable from it only
\* through its second and later parents are emitted before its first parent,
\* in every commit graph.
C26_SideBeforeFirstParent ==
    WalkOver =>
        \A m \in WalkedMerges :
            \A c \in SideOnly(m) \cap WalkedCommits :
                EmittedBefore(c, Parents(m)[1])

\* C27: with ignore_null_merges on, once the walk is over every commit on the
\* first-parent chain of the head that is not itself an elided null merge has
\* been emitted, however long the side branches of the elided merges are.
C27_FirstParentChainEmitted ==
    (WalkOver /\ conf.ignore_null_merges) =>
        LET chain == FirstParentChain(GetRef(conf.branch))
        IN  \A i \in 1..Len(chain) :
                chain[i] \notin ElidedMerges => chain[i] \in WalkedCommits

\* C28: whatever the commit graph and the setting of ignore_null_merges, the
\* walk emits no commit twice.
C28_EmittedAtMostOnce ==
    \A i, j \in 1..Len(yielded) :
        yielded[i].commit = yielded[j].commit => i = j

\* C29: with ignore_null_merges off, the walk of any commit graph comes to an
\* end with an empty stack, and by then it has emitted every commit reachable
\* from the head.
C29_WalkEmitsAll ==
    (pc = "walk" /\ ~conf.ignore_null_merges)
        ~> (/\ WalkOver
            /\ todo = <<>>
            /\ WalkedCommits = Reach(GetRef(conf.branch)))

C29_Witness ==
    /\ WalkOver
    /\ ~conf.ignore_null_merges
    /\ todo = <<>>
    /\ WalkedCommits = Reach(GetRef(conf.branch))
    /\ \E c \in WalkedCommits : Cardinality(ChildrenOnBranch(c)) >= 2

\* The places in the order of emission of the commits that carry the tag the
\* scan is to stop at.
StopTagEmittedAt ==
    {i \in 1..Len(yielded) :
        Contains(get_valid_tags_on_commit(yielded[i].commit), scan.scan_stop_tag)}

\* C30: once the walk has emitted the commit that carries scan_stop_tag, that
\* commit is the last one emitted and the walk is over; every note file the
\* commit changes has its call on the tracker, and no call on the tracker
\* comes from a commit older than it.
C30_StopTagCommitLast ==
    (scan.scan_stop_tag # NoVersion /\ StopTagEmittedAt # {}) =>
        LET c == yielded[Len(yielded)].commit
        IN  /\ StopTagEmittedAt = {Len(yielded)}
            /\ pc # "walk"
            /\ \A p \in NoteFiles :
                 Touched(c, p) =>
                     \E k \in 1..Len(calls) :
                         calls[k].sha = c /\ calls[k].filename = p
            /\ \A k \in 1..Len(calls) : calls[k].sha \notin Reach(c) \ {c}

C30_Witness ==
    /\ pc = "done"
    /\ scan.scan_stop_tag # NoVersion
    /\ StopTagEmittedAt = {Len(yielded)}
    /\ LET c == yielded[Len(yielded)].commit
       IN  /\ \E p \in NoteFiles : Touched(c, p)
           /\ \E d \in Reach(c) \ {c} : \E p \in NoteFiles : Touched(d, p)
           /\ Len(yielded) >= 2

\* The entries for a UID in the k-th list of changes given to the aggregator,
\* and a list of two or more entries that are all of one type.
EntriesFor(k, uid) ==
    SelectSeq(SeqConcat(called_on[k]), LAMBDA c : NoteUid(c.path) = uid)
SeveralOfType(es, type) ==
    /\ Len(es) >= 2
    /\ \A i \in 1..Len(es) : es[i].type = type
ResultsFor(k, uid) ==
    SelectSeq(returned[k].results, LAMBDA r : r.uid = uid)

\* C31: a commit whose entries for a UID are two or more adds fails with
\* DuplicateUIDAdd, unless the entries for the UID of a commit given earlier
\* were two or more deletes; then the adds give no result and no error.  A
\* single delete given earlier changes nothing to the failure.
C31_DuplicateAddUnlessTainted ==
    \A k \in 1..Len(called_on), uid \in Uids :
        SeveralOfType(EntriesFor(k, uid), "add") =>
            IF \E j \in 1..(k - 1) : SeveralOfType(EntriesFor(j, uid), "delete")
            THEN returned[k].error = "" /\ ResultsFor(k, uid) = <<>>
            ELSE returned[k].error = "DuplicateUIDAdd"

C31_Witness ==
    /\ Len(called_on) = 2
    /\ SeveralOfType(EntriesFor(1, UidStr(1)), "delete")
    /\ SeveralOfType(EntriesFor(2, UidStr(1)), "add")
    /\ returned[2].error = ""
    /\ returned[2].results = <<>>

\* C32: when the entries of a commit for a UID are one add and one delete, in
\* either order, the only result for the UID is one rename from the path of
\* the delete to the path of the add, at the commit.
C32_AddAndDeleteIsRename ==
    \A k \in 1..Len(called_on), uid \in Uids :
        LET es == EntriesFor(k, uid)
        IN  (Len(es) = 2 /\ {es[1].type, es[2].type} = {"add", "delete"}) =>
                LET added == IF es[1].type = "add" THEN es[1] ELSE es[2]
                    deled == IF es[1].type = "delete" THEN es[1] ELSE es[2]
                IN  /\ returned[k].error = ""
                    /\ ResultsFor(k, uid) =
                           <<[uid |-> uid, type |-> "rename", old |-> deled.path,
                              path |-> added.path, sha |-> 1]>>

C32_Witness ==
    /\ Len(called_on) >= 1
    /\ LET es == EntriesFor(1, UidStr(1))
       IN  /\ Len(es) = 2
           /\ es[1].type = "delete" /\ es[2].type = "add"
           /\ es[1].path # es[2].path
    /\ Len(returned[1].results) = 1
    /\ returned[1].results[1].type = "rename"

\* C33: when the entries of a commit for a UID are two or more and all
\* modifications, or all deletes, given one by one or as the nested list of a
\* merge, the results for the UID are one per entry, in the order of the
\* entries, each of that type with the path of its entry and the commit.
C33_OneResultPerEntry ==
    \A k \in 1..Len(called_on), uid \in Uids, type \in {"modify", "delete"} :
        LET es == EntriesFor(k, uid)
        IN  SeveralOfType(es, type) =>
                /\ returned[k].error = ""
                /\ ResultsFor(k, uid) =
                       [i \in 1..Len(es) |->
                           [uid |-> uid, type |-> type, old |-> <<>>,
                            path |-> es[i].path, sha |-> 1]]

C33_Witness ==
    /\ Len(called_on) >= 1
    /\ Len(called_on[1]) = 1
    /\ Len(called_on[1][1]) = 2
    /\ SeveralOfType(EntriesFor(1, UidStr(1)), "modify")
    /\ EntriesFor(1, UidStr(1))[1].path = EntriesFor(1, UidStr(1))[2].path
    /\ Len(returned[1].results) = 2

\* A version of the list given to _find_scan_stop_point, with its pre-release
\* suffix (its last part, ".0rc1" or ".0b1") taken off when it has one; the
\* call made and what it gave.
IsPre(v) == Len(v.comps) > 1 /\ v.comps[Len(v.comps)] \in {PreRc, PreB}
Canonical(v) == IF IsPre(v) THEN V(SubSeq(v.comps, 1, Len(v.comps) - 1)) ELSE v
StopCalled == pc = "done" /\ returned # <<>>
PlaceOf(vs, v) == CHOOSE i \in 1..Len(vs) : vs[i] = v

\* C34: for no branch or the default branch and an earliest_version that is in
\* versions_by_date: when it is a pre-release and the collapsing is off, the
\* stop point is the entry that follows it; otherwise the stop point is the
\* first entry after it whose canonical version is not that of
\* earliest_version, and none when there is no such entry.
C34_StopAtDifferentCanonical ==
    (/\ StopCalled
     /\ called_on.branch \in {NoBranch, DefaultConf.default_branch}
     /\ called_on.earliest_version \in Range(called_on.versions_by_date)) =>
        LET vs == called_on.versions_by_date
            idx == PlaceOf(vs, called_on.earliest_version)
            later == {i \in (idx + 1)..Len(vs) :
                         Canonical(vs[i]) # Canonical(called_on.earliest_version)}
        IN  IF IsPre(called_on.earliest_version) /\ ~called_on.collapse_pre_releases
            THEN idx < Len(vs) => returned[1].tag = vs[idx + 1]
            ELSE /\ returned[1].error = ""
                 /\ returned[1].tag =
                        IF later = {} THEN NoVersion
                        ELSE vs[CHOOSE i \in later : \A j \in later : i <= j]

\* The series branches of the repository that come before a branch in the
\* order of their names.
SeriesBefore(b) ==
    {SeriesNames[i] : i \in {j \in 1..Len(SeriesNames) :
        /\ SeriesNames[j] \in DOMAIN refs
        /\ \E k \in (j + 1)..Len(SeriesNames) : SeriesNames[k] = b}}
LastOfSeries(S) ==
    SeriesNames[CHOOSE i \in 1..Len(SeriesNames) :
        /\ SeriesNames[i] \in S
        /\ \A j \in (i + 1)..Len(SeriesNames) : SeriesNames[j] \notin S]

C36_StopPointNeverFails ==
    StopCalled =>
        /\ returned[1].error = ""
        /\ returned[1].tag \in {NoVersion} \cup Range(called_on.versions_by_date)
                                \cup {tags[i].name : i \in 1..Len(tags)}

\* C37: the base of a branch is the first commit, walking the branch from its
\* head, that is a commit of the default branch too; _get_branch_base gives
\* the newest version tag on that commit and none when it has no version tag,
\* whether the branch or master is checked out and whatever commits the
\* branch has of its own.
C37_BranchBase ==
    (pc = "done" /\ returned # <<>>) =>
        LET c == BaseCommit(called_on)
        IN  returned[1] = IF c \in TaggedCommits THEN NewestTagOn(c) ELSE NoVersion

C37_Witness ==
    /\ pc = "done"
    /\ returned # <<>>
    /\ refs[called_on] = OnHead
    /\ Cardinality(Reach(GetRef(called_on)) \ Reach(GetRef("master"))) >= 2
    /\ GetRef("master") # BaseCommit(called_on)
    /\ Cardinality({i \in 1..Len(tags) : tags[i].commit = BaseCommit(called_on)}) = 2
    /\ returned[1] = tags[2].name

C39_TrackerConsistent ==
    /\ DOMAIN tracker.last_name_by_id \cap tracker.uniqueids_deleted = {}
    /\ (DOMAIN tracker.last_name_by_id \cup tracker.uniqueids_deleted)
           \subseteq KeysOf(tracker.earliest_seen)
    /\ \A i \in 1..Len(tracker.earliest_seen) :
         tracker.earliest_seen[i][2] \in Range(tracker.versions)
    /\ \A i, j \in 1..Len(tracker.versions) :
         tracker.versions[i] = tracker.versions[j] => i = j

C39_Witness ==
    /\ tracker.uniqueids_deleted # {}
    /\ DOMAIN tracker.last_name_by_id # {}
    /\ Len(tracker.versions) >= 2
    /\ Len(calls) > Len(tracker.versions)

====
